---------------------------- MODULE Spec2Model ----------------------------
(***************************************************************************)
(* Model of cond-comp: conditional compilation of JavaScript source text   *)
(* driven by #if / #elseif / #else / #endif comments.                      *)
(*                                                                         *)
(* A source text is a sequence of characters.  Offsets are 0-based as in   *)
(* the TypeScript code: the character at offset p is code[p + 1].          *)
(* A guard expression, a directive tag and every other lexical atom is     *)
(* one character of the model's alphabet:                                  *)
(*   "x"                          an identifier of the surrounding code    *)
(*   "/" "*"                      punctuation, also the comment delimiters *)
(*   " " "TAB" ...                horizontal whitespace                    *)
(*   "LF" "CR" "LS" "PS"          line terminators                         *)
(*   "#if" "#elseif" "#else" "#endif"   the directive tags                 *)
(*   "A" "!A" "A=1" "A=0" "T!" "N!" "aw" "aw()" "P!"   guard expressions  *)
(*   ";" "while" "A+"             texts that are no guard expression       *)
(***************************************************************************)
EXTENDS Integers, Sequences, FiniteSets, TLC

VARIABLES
    code,        \* the source text of the current call
    context,     \* the caller's context object (shared by all calls)
    pending,     \* comments the tokenizer has still to report
    lexOk,       \* FALSE when the tokenizer ends with a SyntaxError
    blocks,      \* the heap of If/ElseIf/Else block objects, by identity
    toplevel,    \* parse: toplevel
    ifStack,     \* parse: ifStack
    scopeStack,  \* parse: scopeStack
    errors,      \* parse: errors
    pc,          \* position of the call: parse, eval, apply, done, failed
    failure,     \* the error the call threw, if any
    evalLog,     \* the guards executed by the batch program, in order
    output,      \* the text returned by the call
    calls,       \* number of calls made with this context
    context0,    \* the context as it was when the current call started
    mode,        \* the entry point: "condComp" or "condCompSync"
    cli,         \* the command line program: its options and its position
    microtasks   \* TRUE while a promise reaction "A = true" awaits its turn

vars == <<code, context, pending, lexOk, blocks, toplevel, ifStack, scopeStack,
          errors, pc, failure, evalLog, output, calls, context0, mode, cli,
          microtasks>>

----------------------------------------------------------------------------
(* Characters *)

LineTerminators == {"LF", "CR", "LS", "PS"}

\* slurpAllWhitespaceLeft's list: U+0020, U+0009, U+000B, U+000C, U+00A0,
\* U+1680, U+2000..U+200A, U+202F, U+205F, U+3000, U+FEFF.
whitespace ==
    {" ", "TAB", "VT", "FF", "NBSP", "U1680", "U2000", "U2001", "U2002",
     "U2003", "U2004", "U2005", "U2006", "U2007", "U2008", "U2009", "U200A",
     "U202F", "U205F", "U3000", "BOM"}

\* \s of a JavaScript regular expression: white space and line terminators.
RegexSpace == whitespace \cup LineTerminators

Tags == {"#if", "#elseif", "#else", "#endif"}

\* Guard texts that acorn.parse accepts as exactly one expression statement.
GuardExprs == {"A", "!A", "A=1", "A=0", "T!", "N!", "aw", "aw()", "P!"}

\* A text that parses, but not to one expression statement ("A; B;").
NotAnExpr == ";"

\* Texts that are not one expression statement: "A; B;" (two statements),
\* "while (false) {}" (a WhileStatement) and "A +" (a SyntaxError of
\* acorn.parse).
InvalidTexts == {NotAnExpr, "while", "A+"}

Slice(s, from, to) == SubSeq(s, from + 1, to)

CharAt(s, p) == IF p >= 0 /\ p < Len(s) THEN s[p + 1] ELSE "EOF"

----------------------------------------------------------------------------
(* The tokenizer: which comments it reports, and whether it ends normally *)

\* First offset >= p holding a line terminator, or the end of the text.
RECURSIVE LineEnd(_, _)
LineEnd(s, p) ==
    IF p >= Len(s) \/ s[p + 1] \in LineTerminators THEN p ELSE LineEnd(s, p + 1)

\* First offset k >= p with "*" at k and "/" at k + 1, or -1.
RECURSIVE BlockEnd(_, _)
BlockEnd(s, p) ==
    IF p + 1 >= Len(s) THEN -1
    ELSE IF s[p + 1] = "*" /\ s[p + 2] = "/" THEN p
    ELSE BlockEnd(s, p + 1)

\* First offset k >= p holding "/" on the same line, or -1.
RECURSIVE RegexEnd(_, _)
RegexEnd(s, p) ==
    IF p >= Len(s) \/ s[p + 1] \in LineTerminators THEN -1
    ELSE IF s[p + 1] = "/" THEN p
    ELSE RegexEnd(s, p + 1)

\* Characters that continue a word (a regular expression's flags).
IdentChars == {"x"} \cup GuardExprs

\* The tokenizer's position record after the characters from offset i up
\* to offset p: curLine (1-based) and lineStart.  CR LF is one line break.
RECURSIVE LocOf(_, _, _, _)
LocOf(s, p, i, loc) ==
    IF i >= p THEN loc
    ELSE IF s[i + 1] = "CR" /\ CharAt(s, i + 1) = "LF" /\ i + 1 < p
         THEN LocOf(s, p, i + 2, [line |-> loc.line + 1, lineStart |-> i + 2])
    ELSE IF s[i + 1] \in LineTerminators
         THEN LocOf(s, p, i + 1, [line |-> loc.line + 1, lineStart |-> i + 1])
    ELSE LocOf(s, p, i + 1, loc)

\* What onComment receives: isBlock, text, start, end, and startLoc's line
\* (1-based) and column (0-based).
Comment(s, isBlock, start, end, textFrom, textTo, loc) ==
    [isBlock |-> isBlock, text |-> Slice(s, textFrom, textTo),
     start |-> start, end |-> end,
     line |-> loc.line, column |-> start - loc.lineStart]

\* acorn.tokenizer(code, {onComment}) run to the end of the text: the comments
\* in source order, and ok = FALSE when the tokenizer raises a SyntaxError
\* (the comments before the error have been reported by then).
RECURSIVE Tokenize(_, _, _, _, _)
Tokenize(s, p, exprAllowed, loc, acc) ==
    IF p >= Len(s) THEN [comments |-> acc, ok |-> TRUE]
    ELSE LET c == s[p + 1]
             n == CharAt(s, p + 1)
         IN
         IF c = "/" /\ n = "/" THEN
             LET e == LineEnd(s, p + 2)
             IN Tokenize(s, e, exprAllowed, loc,
                         Append(acc, Comment(s, FALSE, p, e, p + 2, e, loc)))
         ELSE IF c = "/" /\ n = "*" THEN
             LET k == BlockEnd(s, p + 2)
             IN IF k < 0 THEN [comments |-> acc, ok |-> FALSE]
                ELSE Tokenize(s, k + 2, exprAllowed, LocOf(s, k + 2, p, loc),
                              Append(acc, Comment(s, TRUE, p, k + 2, p + 2, k, loc)))
         ELSE IF c = "/" /\ exprAllowed THEN
             \* a regular expression literal, up to the next "/" of the line
             LET k == RegexEnd(s, p + 1)
             IN IF k < 0 \/ CharAt(s, k + 1) \in IdentChars
                THEN [comments |-> acc, ok |-> FALSE]
                ELSE Tokenize(s, k + 1, FALSE, loc, acc)
         ELSE IF c = "/" \/ c = "*" \/ c = NotAnExpr THEN
             Tokenize(s, p + 1, TRUE, loc, acc)
         ELSE IF c = "CR" /\ n = "LF" THEN
             Tokenize(s, p + 2, exprAllowed, LocOf(s, p + 2, p, loc), acc)
         ELSE IF c \in LineTerminators THEN
             Tokenize(s, p + 1, exprAllowed, LocOf(s, p + 1, p, loc), acc)
         ELSE IF c \in whitespace THEN
             Tokenize(s, p + 1, exprAllowed, loc, acc)
         ELSE IF c \in Tags THEN
             \* "#" outside a comment: Unexpected character
             [comments |-> acc, ok |-> FALSE]
         ELSE Tokenize(s, p + 1, FALSE, loc, acc)

Scan(s) == Tokenize(s, 0, TRUE, [line |-> 1, lineStart |-> 0], <<>>)

----------------------------------------------------------------------------
(* onComment: the directive patterns *)

RECURSIVE SkipSpace(_, _)
SkipSpace(t, p) ==
    IF p < Len(t) /\ t[p + 1] \in RegexSpace THEN SkipSpace(t, p + 1) ELSE p

NoMatch == [matched |-> FALSE, tag |-> "", rawExpression |-> <<>>]

\* #(if|elseif|else|endif)(?:$|\s+$|\s+(.+)$) with the tag at offset q of t:
\* the tag must be followed by the end of the line or by white space; what
\* follows that white space on the line, if anything, is group 2.
MatchTail(t, q) ==
    LET e    == LineEnd(t, q + 1)
        rest == Slice(t, q + 1, e)
        k    == SkipSpace(rest, 0)
    IN IF rest = <<>> THEN [matched |-> TRUE, tag |-> t[q + 1], rawExpression |-> <<>>]
       ELSE IF rest[1] \notin RegexSpace THEN NoMatch
       ELSE [matched |-> TRUE, tag |-> t[q + 1],
             rawExpression |-> Slice(rest, k, Len(rest))]

\* /^\s*#(...)/ at offset p of t.
MatchLineAt(t, p) ==
    LET q == SkipSpace(t, p)
    IN IF CharAt(t, q) \in Tags THEN MatchTail(t, q) ELSE NoMatch

\* /^\s*\*?\s*#(...)/ at offset p of t.
MatchBlockAt(t, p) ==
    LET q1 == SkipSpace(t, p)
        q2 == IF CharAt(t, q1) = "*" THEN SkipSpace(t, q1 + 1) ELSE q1
    IN IF CharAt(t, q2) \in Tags THEN MatchTail(t, q2) ELSE NoMatch

\* A block comment pattern without the m flag, applied to the first line of
\* the comment only.
MatchBlockFirstLine(t, p) == MatchBlockAt(Slice(t, 0, LineEnd(t, 0)), 0)

\* With the m flag ^ matches at offset 0 and after every line terminator;
\* exec returns the leftmost match.
RECURSIVE MatchBlockFrom(_, _)
MatchBlockFrom(t, p) ==
    IF p > Len(t) THEN NoMatch
    ELSE IF (p = 0 \/ t[p] \in LineTerminators) /\ MatchBlockAt(t, p).matched
         THEN MatchBlockAt(t, p)
    ELSE MatchBlockFrom(t, p + 1)

MatchDirective(isBlock, text) ==
    IF isBlock THEN MatchBlockFrom(text, 0) ELSE MatchLineAt(text, 0)

\* parseExpression: acorn.parse of the raw text must give exactly one
\* statement, an ExpressionStatement.  error = FALSE then, and the code is
\* the expression's own span.
parseExpression(exprCode) ==
    LET k == SkipSpace(exprCode, 0)
        c == CharAt(exprCode, k)
    IN IF c \in GuardExprs /\ SkipSpace(exprCode, k + 1) = Len(exprCode)
       THEN [error |-> FALSE, code |-> c]
       ELSE [error |-> TRUE, code |-> ""]

----------------------------------------------------------------------------
(* parse: the block tree and the two stacks *)

\* The objects parse creates live in the heap "blocks"; a block's identity
\* is its index.  children, elseIfs: <<>> stands for undefined; else: 0
\* stands for undefined; takenBranch: <<>> stands for undefined, <<b>> for b.
NoEndif == [start |-> -1, end |-> -1, line |-> -1, column |-> -1]

NewBlock(type, c, dummy) ==
    [type |-> type, expression |-> "", start |-> c.start, end |-> c.end,
     line |-> c.line, column |-> c.column, takenBranch |-> <<>>,
     children |-> <<>>, elseIfs |-> <<>>, else |-> 0, endif |-> NoEndif,
     dummy |-> dummy]

ErrorEntry(subtype, line, column) ==
    [type |-> "parse", subtype |-> subtype, line |-> line, column |-> column]

\* The locals of parse as one record.
ParseState ==
    [blocks |-> blocks, toplevel |-> toplevel, ifStack |-> ifStack,
     scopeStack |-> scopeStack, errors |-> errors]

Top(stack) == IF stack = <<>> THEN 0 ELSE stack[Len(stack)]

Pop(stack) == SubSeq(stack, 1, Len(stack) - 1)

\* Allocates a block; its identity is Len(P.blocks) + 1.
Alloc(P, b) == [P EXCEPT !.blocks = Append(@, b)]

\* A pushIf that attaches the If to the If on top of the If stack, whatever
\* branch of it is the scope.
pushIfUnderIf(P, ifBlock) ==
    LET scope == Top(P.ifStack)
        P1 == IF scope # 0
              THEN [P EXCEPT !.blocks[scope].children = Append(@, ifBlock)]
              ELSE P
    IN [P1 EXCEPT !.scopeStack = Append(@, ifBlock),
                  !.ifStack = Append(@, ifBlock)]

pushIf(P, ifBlock) ==
    LET scope == Top(P.scopeStack)
        P1 == IF scope # 0
              THEN [P EXCEPT !.blocks[scope].children = Append(@, ifBlock)]
              ELSE P
    IN [P1 EXCEPT !.scopeStack = Append(@, ifBlock),
                  !.ifStack = Append(@, ifBlock)]

\* A setExpression that reports an invalid guard where acorn.parse met the
\* failure in the guard text: line 1 of that text.
setExpressionAtFailure(P, rawExpression, block, c) ==
    IF rawExpression = <<>>
    THEN [P EXCEPT !.errors =
              Append(@, ErrorEntry("invalid_expression", c.line, c.column))]
    ELSE LET expressionResult == parseExpression(rawExpression)
         IN IF expressionResult.error
            THEN [P EXCEPT !.errors =
                     Append(@, ErrorEntry("invalid_expression", 1, Len(rawExpression)))]
            ELSE [P EXCEPT !.blocks[block].expression = expressionResult.code]

setExpression(P, rawExpression, block, c) ==
    IF rawExpression = <<>>
    THEN [P EXCEPT !.errors =
              Append(@, ErrorEntry("invalid_expression", c.line, c.column))]
    ELSE LET expressionResult == parseExpression(rawExpression)
         IN IF expressionResult.error
            THEN [P EXCEPT !.errors =
                     Append(@, ErrorEntry("invalid_expression", c.line, c.column))]
            ELSE [P EXCEPT !.blocks[block].expression = expressionResult.code]

\* tag === 'if'
\* A parse that opens a block for an #if only when its guard was accepted.
ParseIfValidOnly(P, c, rawExpression) ==
    LET ifBlock == Len(P.blocks) + 1
        P1 == Alloc(P, NewBlock("if", c, FALSE))
        P2 == setExpression(P1, rawExpression, ifBlock, c)
    IN IF Len(P2.errors) > Len(P.errors) THEN P2 ELSE pushIf(P2, ifBlock)

ParseIf(P, c, rawExpression) ==
    LET ifBlock == Len(P.blocks) + 1
        P1 == Alloc(P, NewBlock("if", c, FALSE))
        P2 == setExpression(P1, rawExpression, ifBlock, c)
    IN pushIf(P2, ifBlock)

\* The shared start of the elseif and else cases: the matching If, a dummy
\* If being pushed when no If is open.
WithCurrentIf(P, c, subtype) ==
    IF P.ifStack # <<>> THEN P
    ELSE LET P1 == [P EXCEPT !.errors =
                       Append(@, ErrorEntry(subtype, c.line, c.column))]
             dummyIf == Len(P1.blocks) + 1
         IN pushIf(Alloc(P1, NewBlock("if", c, TRUE)), dummyIf)

\* An #elseif that is pushed on the scope stack above the scope of its If.
ParseElseIfPushed(P, c, rawExpression) ==
    LET elseIfBlock == Len(P.blocks) + 1
        P1 == Alloc(P, NewBlock("elseif", c, FALSE))
        P2 == setExpression(P1, rawExpression, elseIfBlock, c)
        P3 == WithCurrentIf(P2, c, "elseif_without_if")
        currentIfBlock == Top(P3.ifStack)
        P4 == IF P3.blocks[currentIfBlock].else # 0
              THEN [P3 EXCEPT !.errors =
                       Append(@, ErrorEntry("elseif_after_else", c.line, c.column))]
              ELSE P3
    IN [P4 EXCEPT !.blocks[currentIfBlock].elseIfs = Append(@, elseIfBlock),
                  !.scopeStack = Append(@, elseIfBlock)]

\* tag === 'elseif'
ParseElseIf(P, c, rawExpression) ==
    LET elseIfBlock == Len(P.blocks) + 1
        P1 == Alloc(P, NewBlock("elseif", c, FALSE))
        P2 == setExpression(P1, rawExpression, elseIfBlock, c)
        P3 == WithCurrentIf(P2, c, "elseif_without_if")
        currentIfBlock == Top(P3.ifStack)
        P4 == IF P3.blocks[currentIfBlock].else # 0
              THEN [P3 EXCEPT !.errors =
                       Append(@, ErrorEntry("elseif_after_else", c.line, c.column))]
              ELSE P3
    IN [P4 EXCEPT !.blocks[currentIfBlock].elseIfs = Append(@, elseIfBlock),
                  !.scopeStack[Len(P4.scopeStack)] = elseIfBlock]

\* An #else that replaces the Else of its If without reporting it.
ParseElseUnchecked(P, c) ==
    LET elseBlock == Len(P.blocks) + 1
        P1 == Alloc(P, NewBlock("else", c, FALSE))
        P2 == WithCurrentIf(P1, c, "else_without_if")
        currentIfBlock == Top(P2.ifStack)
    IN [P2 EXCEPT !.blocks[currentIfBlock].else = elseBlock,
                  !.scopeStack[Len(P2.scopeStack)] = elseBlock]

\* tag === 'else'
ParseElse(P, c) ==
    LET elseBlock == Len(P.blocks) + 1
        P1 == Alloc(P, NewBlock("else", c, FALSE))
        P2 == WithCurrentIf(P1, c, "else_without_if")
        currentIfBlock == Top(P2.ifStack)
        P3 == IF P2.blocks[currentIfBlock].else # 0
              THEN [P2 EXCEPT !.errors =
                       Append(@, ErrorEntry("duplicate_else", c.line, c.column))]
              ELSE P2
    IN [P3 EXCEPT !.blocks[currentIfBlock].else = elseBlock,
                  !.scopeStack[Len(P3.scopeStack)] = elseBlock]

\* An #endif that treats a dummy If as no If: it closes it and reports
\* endif_without_if as well.
ParseEndifDummyUnmatched(P, c) ==
    IF P.ifStack = <<>>
    THEN [P EXCEPT !.errors =
             Append(@, ErrorEntry("endif_without_if", c.line, c.column))]
    ELSE LET currentIfBlock == Top(P.ifStack)
             P0 == IF P.blocks[currentIfBlock].dummy
                   THEN [P EXCEPT !.errors =
                            Append(@, ErrorEntry("endif_without_if", c.line, c.column))]
                   ELSE P
             P1 == [P0 EXCEPT !.ifStack = Pop(@),
                              !.blocks[currentIfBlock].endif =
                                  [start |-> c.start, end |-> c.end,
                                   line |-> c.line, column |-> c.column],
                              !.scopeStack = Pop(@)]
         IN IF P1.scopeStack = <<>>
            THEN [P1 EXCEPT !.toplevel = Append(@, currentIfBlock)]
            ELSE P1

\* An #endif that recovers like #else when no If is open: it reports
\* endif_without_if and opens and closes a dummy If.
ParseEndifWithDummy(P, c) ==
    IF P.ifStack = <<>>
    THEN LET P1 == [P EXCEPT !.errors =
                       Append(@, ErrorEntry("endif_without_if", c.line, c.column))]
             dummyIf == Len(P1.blocks) + 1
             P2 == Alloc(P1, NewBlock("if", c, TRUE))
         IN [P2 EXCEPT !.blocks[dummyIf].endif =
                           [start |-> c.start, end |-> c.end,
                            line |-> c.line, column |-> c.column],
                       !.toplevel = Append(@, dummyIf)]
    ELSE LET currentIfBlock == Top(P.ifStack)
             P1 == [P EXCEPT !.ifStack = Pop(@),
                             !.blocks[currentIfBlock].endif =
                                 [start |-> c.start, end |-> c.end,
                                  line |-> c.line, column |-> c.column],
                             !.scopeStack = Pop(@)]
         IN IF P1.scopeStack = <<>>
            THEN [P1 EXCEPT !.toplevel = Append(@, currentIfBlock)]
            ELSE P1

\* tag === 'endif'
ParseEndif(P, c) ==
    IF P.ifStack = <<>>
    THEN [P EXCEPT !.errors =
             Append(@, ErrorEntry("endif_without_if", c.line, c.column))]
    ELSE LET currentIfBlock == Top(P.ifStack)
             P1 == [P EXCEPT !.ifStack = Pop(@),
                             !.blocks[currentIfBlock].endif =
                                 [start |-> c.start, end |-> c.end,
                                  line |-> c.line, column |-> c.column],
                             !.scopeStack = Pop(@)]
         IN IF P1.scopeStack = <<>>
            THEN [P1 EXCEPT !.toplevel = Append(@, currentIfBlock)]
            ELSE P1

\* A callback that gives up at the first error: once an error is recorded
\* the remaining directives are skipped.
onCommentFailFast(P, c) ==
    LET match == MatchDirective(c.isBlock, c.text)
    IN IF ~match.matched \/ P.errors # <<>> THEN P
       ELSE IF match.tag = "#if" THEN ParseIf(P, c, match.rawExpression)
       ELSE IF match.tag = "#elseif" THEN ParseElseIf(P, c, match.rawExpression)
       ELSE IF match.tag = "#else" THEN ParseElse(P, c)
       ELSE ParseEndif(P, c)

\* The onComment callback for one comment.
onComment(P, c) ==
    LET match == MatchDirective(c.isBlock, c.text)
    IN IF ~match.matched THEN P
       ELSE IF match.tag = "#if" THEN ParseIf(P, c, match.rawExpression)
       ELSE IF match.tag = "#elseif" THEN ParseElseIf(P, c, match.rawExpression)
       ELSE IF match.tag = "#else" THEN ParseElse(P, c)
       ELSE ParseEndif(P, c)

\* A loop that reports the open Ifs innermost first.
MissingEndifsInnermostFirst(P) ==
    [i \in 1..Len(P.ifStack) |->
        ErrorEntry("missing_endif",
                   P.blocks[P.ifStack[Len(P.ifStack) + 1 - i]].line,
                   P.blocks[P.ifStack[Len(P.ifStack) + 1 - i]].column)]

\* A parse that lets the Ifs left on ifStack pass.
MissingEndifsNone(P) == <<>>

\* The loop after the scan: one missing_endif per If left on ifStack.
MissingEndifs(P) ==
    [i \in 1..Len(P.ifStack) |->
        ErrorEntry("missing_endif", P.blocks[P.ifStack[i]].line,
                   P.blocks[P.ifStack[i]].column)]

----------------------------------------------------------------------------
(* Guard expressions and the batch program *)

\* What running one guard text in the context does.  The context holds one
\* variable, A.
\*   "A"    A                              "!A"   !A
\*   "A=1"  A = true                       "A=0"  A = false
\*   "T!"   (() => { throw new Error(); })()
\*   "N!"   (() => { throw undefined; })()
\*   "aw"   await A   (a syntax error outside an async function)
\*   "aw()" await (A) (outside an async function: a call of the function
\*                    await, see RunGuardSync)
\*   "P!"   (Promise.resolve().then(() => { A = true }), false)
\* job: the guard queues the promise reaction "A = true"; awaits: the guard
\* suspends the function it runs in once its operand is evaluated.
RunGuard(expression, ctx) ==
    [throws |-> expression \in {"T!", "N!"},
     job    |-> expression = "P!",
     awaits |-> expression \in {"aw", "aw()"},
     cause  |-> IF expression = "N!" THEN "undefined" ELSE "Error",
     value  |-> CASE expression = "A" -> ctx.A
                  [] expression = "aw" -> ctx.A
                  [] expression = "aw()" -> ctx.A
                  [] expression = "!A" -> ~ctx.A
                  [] expression = "A=1" -> TRUE
                  [] OTHER -> FALSE,
     ctx    |-> CASE expression = "A=1" -> [ctx EXCEPT !.A = TRUE]
                  [] expression = "A=0" -> [ctx EXCEPT !.A = FALSE]
                  [] OTHER -> ctx]

\* A guard in the program compiled for condCompSync.  The functions of that
\* program are not async and the program is a script, where await is an
\* identifier: await (A) calls a function await, which the context does
\* not define, and throws a ReferenceError.
\* A synchronous program whose guards read the context and write to a copy.
RunGuardSyncFrozen(expression, ctx) ==
    [RunGuard(expression, ctx) EXCEPT !.ctx = ctx]

RunGuardSync(expression, ctx) ==
    IF expression = "aw()"
    THEN [throws |-> TRUE, job |-> FALSE, awaits |-> FALSE, cause |-> "Error",
          value |-> FALSE, ctx |-> ctx]
    ELSE RunGuard(expression, ctx)

\* The state of a run of the batch program: the context, the guards run so
\* far, whether an exception is propagating and which, and the value built.
Logged(st, block, g) ==
    Append(st.log, [block |-> block, before |-> st.ctx,
                    outcome |-> IF g.throws THEN "throws"
                                ELSE IF g.value THEN "truthy" ELSE "falsy"])

\* The continuation of an await: in the program compiled for condComp it
\* runs after the promise reactions that were queued before it; the program
\* compiled for condCompSync has no await.
Turn(st) ==
    IF st.sync \/ ~st.jobs THEN st
    ELSE [st EXCEPT !.ctx = [@ EXCEPT !.A = TRUE], !.jobs = FALSE]

\* The run after guard g: the context it left, the log, the queued reaction.
AfterGuard(st, owner, g) ==
    LET s0 == [st EXCEPT !.ctx = g.ctx, !.log = Logged(st, owner, g),
                         !.jobs = @ \/ g.job]
    IN IF g.awaits /\ ~g.throws THEN Turn(s0) ELSE s0

\* throw { cause: e, line, column } of a catch clause of compileIf; origin is
\* the identity of the innermost cause, the guard that threw first.
Wrap(st, cause, origin, b) ==
    [st EXCEPT !.thrown = TRUE,
               !.err = [cause |-> cause, origin |-> origin,
                        line |-> b.line, column |-> b.column]]

Entry(branch, hasChildren, children) ==
    [branch |-> branch, hasChildren |-> hasChildren, children |-> children]

RECURSIVE RunIfs(_, _, _, _)
RECURSIVE RunIf(_, _, _)
RECURSIVE RunElseIfs(_, _, _, _)

\* A program that runs the children of a branch whatever its guard gave and
\* drops their results afterwards when the branch is not taken.
RunBranchEager(B, owner, branch, st) ==
    LET b  == B[owner]
        g  == IF st.sync THEN RunGuardSync(b.expression, st.ctx)
              ELSE RunGuard(b.expression, st.ctx)
        s1 == AfterGuard(st, owner, g)
        r  == RunIfs(B, b.children, 1, [s1 EXCEPT !.res = <<>>])
    IN IF g.throws THEN [taken |-> TRUE, st |-> Wrap(s1, g.cause, owner, b)]
       ELSE IF r.thrown
            THEN [taken |-> TRUE, st |-> Wrap(r, "wrapped", r.err.origin, b)]
       ELSE IF ~g.value THEN [taken |-> FALSE, st |-> [r EXCEPT !.res = st.res]]
       ELSE [taken |-> TRUE,
             st |-> [r EXCEPT !.res = Entry(branch, b.children # <<>>, r.res)]]

\* try { if (expression) { return { branch, children: [...] } } } catch (e)
\* { throw { cause: e, line, column } }: the children are run inside the try.
RunBranch(B, owner, branch, st) ==
    LET b  == B[owner]
        g  == IF st.sync THEN RunGuardSync(b.expression, st.ctx)
              ELSE RunGuard(b.expression, st.ctx)
        s1 == AfterGuard(st, owner, g)
    IN IF g.throws THEN [taken |-> TRUE, st |-> Wrap(s1, g.cause, owner, b)]
       ELSE IF ~g.value THEN [taken |-> FALSE, st |-> s1]
       ELSE IF b.children = <<>>
            THEN [taken |-> TRUE,
                  st |-> [s1 EXCEPT !.res = Entry(branch, FALSE, <<>>)]]
       ELSE LET r == RunIfs(B, b.children, 1, [s1 EXCEPT !.res = <<>>])
            IN IF r.thrown
               THEN [taken |-> TRUE, st |-> Wrap(r, "wrapped", r.err.origin, b)]
               ELSE [taken |-> TRUE,
                     st |-> [r EXCEPT !.res = Entry(branch, TRUE, r.res)]]

\* A program that runs the #elseif guards of an If after its #if guard was
\* truthy as well, and returns the entry of the #if branch.
RunIfThrough(B, ifBlock, st) ==
    LET r == RunBranch(B, ifBlock, 0, st)
    IN IF r.taken /\ ~r.st.thrown
       THEN LET e == RunElseIfs(B, ifBlock, 1, r.st)
            IN IF e.thrown THEN e ELSE [e EXCEPT !.res = r.st.res]
       ELSE IF r.taken THEN r.st
       ELSE RunElseIfs(B, ifBlock, 1, r.st)

\* The code compileIf generates for one If; st.res becomes its entry.
RunIf(B, ifBlock, st) ==
    LET r == RunBranch(B, ifBlock, 0, st)
    IN IF r.taken THEN r.st ELSE RunElseIfs(B, ifBlock, 1, r.st)

\* The elseIfs from the index-th on, then return { branch: -1, children }.
RunElseIfs(B, ifBlock, index, st) ==
    LET b == B[ifBlock]
    IN IF index <= Len(b.elseIfs)
       THEN LET r == RunBranch(B, b.elseIfs[index], index, st)
            IN IF r.taken THEN r.st ELSE RunElseIfs(B, ifBlock, index + 1, r.st)
       ELSE IF b.else = 0 \/ B[b.else].children = <<>>
            THEN [st EXCEPT !.res = Entry(-1, FALSE, <<>>)]
       ELSE LET r == RunIfs(B, B[b.else].children, 1, [st EXCEPT !.res = <<>>])
            IN IF r.thrown THEN r
               ELSE [r EXCEPT !.res = Entry(-1, TRUE, r.res)]

\* A program that runs every If of a list in a copy of the context the list
\* started with.
RECURSIVE RunIfsCopy(_, _, _, _)
RunIfsCopy(B, ifBlocks, i, st) ==
    IF i > Len(ifBlocks) THEN st
    ELSE LET r == RunIf(B, ifBlocks[i], st)
         IN IF r.thrown THEN r
            ELSE RunIfsCopy(B, ifBlocks, i + 1,
                            [r EXCEPT !.res = Append(st.res, r.res), !.ctx = st.ctx])

\* A program that goes on with the next If after an exception and reports
\* the last exception.
RECURSIVE RunIfsAll(_, _, _, _)
RunIfsAll(B, ifBlocks, i, st) ==
    IF i > Len(ifBlocks) THEN st
    ELSE LET r == RunIf(B, ifBlocks[i], [st EXCEPT !.thrown = FALSE])
         IN IF r.thrown THEN RunIfsAll(B, ifBlocks, i + 1, [r EXCEPT !.res = st.res])
            ELSE RunIfsAll(B, ifBlocks, i + 1,
                           [r EXCEPT !.res = Append(st.res, r.res),
                                     !.thrown = st.thrown])

\* The array literal [ if_1, if_2, ... ]: the elements are evaluated in
\* order, and an exception ends the evaluation.  st.res is the array so far.
RunIfs(B, ifBlocks, i, st) ==
    IF i > Len(ifBlocks) THEN st
    ELSE LET r == Turn(RunIf(B, ifBlocks[i], st))
         IN IF r.thrown THEN r
            ELSE RunIfs(B, ifBlocks, i + 1, [r EXCEPT !.res = Append(st.res, r.res)])

\* A program run in a copy of the context: the caller's object stays as it
\* was given.
RunProgramInCopy(B, ifBlocks, ctx, sync) ==
    [RunIfs(B, ifBlocks, 1,
            [ctx |-> ctx, sync |-> sync, log |-> <<>>, thrown |-> FALSE,
             jobs |-> FALSE,
             err |-> [cause |-> "", origin |-> 0, line |-> 0, column |-> 0],
             res |-> <<>>])
     EXCEPT !.ctx = ctx]

\* compileIfs: try { return [...] } catch (e) { return e }, run in ctx.
RunProgram(B, ifBlocks, ctx, sync) ==
    RunIfs(B, ifBlocks, 1,
           [ctx |-> ctx, sync |-> sync, log |-> <<>>, thrown |-> FALSE,
            jobs |-> FALSE,
            err |-> [cause |-> "", origin |-> 0, line |-> 0, column |-> 0],
            res |-> <<>>])

\* The program text holds every guard of the tree; in the program compiled
\* for condCompSync an await with an operand that is not in parentheses is a
\* syntax error, so that nothing is run.
HasAwait(B) == \E i \in 1..Len(B) : B[i].expression = "aw"

\* A setEvaluationResults that records the branches of one level and leaves
\* the results of the children aside.
RECURSIVE setEvaluationResultsTopOnly(_, _, _, _)
setEvaluationResultsTopOnly(B, ifBlocks, result, i) ==
    IF i > Len(result) THEN B
    ELSE setEvaluationResultsTopOnly(
             [B EXCEPT ![ifBlocks[i]].takenBranch = <<result[i].branch>>],
             ifBlocks, result, i + 1)

RECURSIVE setEvaluationResults(_, _, _, _)
setEvaluationResults(B, ifBlocks, result, i) ==
    IF i > Len(result) THEN B
    ELSE LET ifBlock == ifBlocks[i]
             e  == result[i]
             B1 == [B EXCEPT ![ifBlock].takenBranch = <<e.branch>>]
             B2 == IF ~e.hasChildren THEN B1
                   ELSE IF e.branch = 0
                   THEN setEvaluationResults(B1, B1[ifBlock].children, e.children, 1)
                   ELSE IF e.branch > 0
                   THEN setEvaluationResults(
                            B1, B1[B1[ifBlock].elseIfs[e.branch]].children,
                            e.children, 1)
                   ELSE IF B1[ifBlock].else # 0
                   THEN setEvaluationResults(
                            B1, B1[B1[ifBlock].else].children, e.children, 1)
                   ELSE B1
         IN setEvaluationResults(B2, ifBlocks, result, i + 1)

\* makeEvaluationError reads error.cause.message: a cause that is undefined
\* makes that read throw a TypeError in place of the CondCompEvalError.
makeEvaluationError(error) ==
    IF error.cause = "undefined"
    THEN [kind |-> "TypeError", line |-> -1, column |-> -1, origin |-> 0,
          entries |-> <<>>]
    ELSE [kind |-> "eval", line |-> error.line, column |-> error.column,
          origin |-> error.origin, entries |-> <<>>]

----------------------------------------------------------------------------
(* apply: the cut list and the reconstruction of the text *)

\* new Cuts(): the (0,0) sentinel.
NewCuts == <<[start |-> 0, end |-> 0]>>

\* An add that never merges.
CutsAddNoMerge(slices, start, end) == Append(slices, [start |-> start, end |-> end])

\* Cuts.add
CutsAdd(slices, start, end) ==
    LET prevCut == slices[Len(slices)]
    IN IF prevCut.end = start
       THEN [slices EXCEPT ![Len(slices)].end = end]
       ELSE Append(slices, [start |-> start, end |-> end])

\* An isEmpty that never reports an empty list.
CutsIsEmptyNever(slices) == FALSE

\* Cuts.isEmpty
CutsIsEmpty(slices) == Len(slices) = 1 /\ slices[1].end = 0

\* A cut of the trailing directives that starts at the #else when there is
\* one, whatever elseifs follow the taken branch.
TrailStartElseFirst(B, b, taken) ==
    IF b.else # 0 THEN B[b.else].start
    ELSE IF Len(b.elseIfs) > taken THEN B[b.elseIfs[taken + 1]].start
    ELSE b.endif.start

\* A cut of the trailing directives that starts at the #endif only.
TrailStartEndifOnly(B, b, taken) == b.endif.start

\* Start of the cut that removes what follows the taken branch: the next
\* elseif after index taken, else the else, else the endif.
TrailStart(B, b, taken) ==
    IF Len(b.elseIfs) > taken THEN B[b.elseIfs[taken + 1]].start
    ELSE IF b.else # 0 THEN B[b.else].start
    ELSE b.endif.start

RECURSIVE makeCuts(_, _, _, _)
makeCuts(B, ifBlocks, i, cuts) ==
    IF i > Len(ifBlocks) THEN cuts
    ELSE LET b == B[ifBlocks[i]]
             takenBranch == b.takenBranch[1]
             c ==
               IF takenBranch = 0 THEN
                   LET c1 == CutsAdd(cuts, b.start, b.end)
                       c2 == makeCuts(B, b.children, 1, c1)
                   IN CutsAdd(c2, TrailStart(B, b, 0), b.endif.end)
               ELSE IF takenBranch >= 1 THEN
                   LET elseifBlock == B[b.elseIfs[takenBranch]]
                       c1 == CutsAdd(cuts, b.start, elseifBlock.end)
                       c2 == makeCuts(B, elseifBlock.children, 1, c1)
                   IN CutsAdd(c2, TrailStart(B, b, takenBranch), b.endif.end)
               ELSE IF b.else # 0 THEN
                   LET c1 == CutsAdd(cuts, b.start, B[b.else].end)
                       c2 == makeCuts(B, B[b.else].children, 1, c1)
                   IN CutsAdd(c2, b.endif.start, b.endif.end)
               ELSE CutsAdd(cuts, b.start, b.endif.end)
         IN makeCuts(B, ifBlocks, i + 1, c)

isNewLineChar(charCode) == charCode = "LF" \/ charCode = "CR" \/ charCode = "LS" \/ charCode = "LS"

\* A line test that does not take offset 0 for the beginning of a line.
isEmptyLineAfterTerminator(str, end) ==
    end > 0 /\ isNewLineChar(CharAt(str, end - 1))

isEmptyLine(str, end) == end = 0 \/ isNewLineChar(CharAt(str, end - 1))

\* A removal on the right that takes every line terminator that follows.
RECURSIVE slurpAllNewLinesRight(_, _)
slurpAllNewLinesRight(str, pos) ==
    IF CharAt(str, pos) \in {"LF", "CR", "LS", "PS"}
    THEN slurpAllNewLinesRight(str, pos + 1)
    ELSE pos

slurpSingleNewLineRight(str, pos) ==
    LET c0 == CharAt(str, pos)
    IN IF c0 = "LF" \/ c0 = "LS" \/ c0 = "PS" THEN pos + 1
       ELSE IF c0 = "CR" /\ CharAt(str, pos + 1) = "LF" THEN pos + 2
       ELSE pos

\* A trim that removes nothing.
slurpNothingLeft(str, end) == end

\* A trim that also goes back over line terminators.
RECURSIVE slurpAllSpaceLeft(_, _)
slurpAllSpaceLeft(str, end) ==
    IF end - 1 < 0 THEN end
    ELSE IF CharAt(str, end - 1) \notin RegexSpace THEN end
    ELSE slurpAllSpaceLeft(str, end - 1)

RECURSIVE slurpAllWhitespaceLeft(_, _)
slurpAllWhitespaceLeft(str, end) ==
    IF end - 1 < 0 THEN end
    ELSE IF CharAt(str, end - 1) \notin whitespace THEN end
    ELSE slurpAllWhitespaceLeft(str, end - 1)

\* The offsets pos .. end - 1, the characters of code.slice(pos, end).
Offsets(pos, end) == [k \in 1..(IF end > pos THEN end - pos ELSE 0) |-> pos + k - 1]

\* The loop of apply over cuts.slices, as the offsets of the characters that
\* are appended to resultCode, in the order they are appended.
RECURSIVE KeptOffsets(_, _, _, _, _)
KeptOffsets(str, slices, i, pos, kept) ==
    IF i > Len(slices) THEN kept \o Offsets(pos, Len(str))
    ELSE LET end  == slurpAllWhitespaceLeft(str, slices[i].start)
             pos1 == slices[i].end
             pos2 == IF isEmptyLine(str, end)
                     THEN slurpSingleNewLineRight(str, pos1) ELSE pos1
         IN KeptOffsets(str, slices, i + 1, pos2, kept \o Offsets(pos, end))

TextAt(str, offsets) == [k \in 1..Len(offsets) |-> str[offsets[k] + 1]]

\* The offsets of the characters of str that apply returns, in order: all
\* of them when the cut list is empty (return code).
applyOffsets(str, B, ifBlocks) ==
    LET cuts == makeCuts(B, ifBlocks, 1, NewCuts)
    IN IF CutsIsEmpty(cuts) THEN Offsets(0, Len(str))
       ELSE KeptOffsets(str, cuts, 1, 0, <<>>)

apply(str, B, ifBlocks) == TextAt(str, applyOffsets(str, B, ifBlocks))

----------------------------------------------------------------------------
(* The calls: condComp and condCompSync *)

NoFailure ==
    [kind |-> "none", line |-> -1, column |-> -1, origin |-> 0, entries |-> <<>>]

\* The library called directly: no command line.
NoCli == [env |-> [defined |-> FALSE, parsed |-> <<>>], var |-> <<>>, i |-> 0]

\* The state when a call starts on text src with the context object ctx.
Start(src, ctx, n) ==
    /\ code = src
    /\ context = ctx
    /\ context0 = ctx
    /\ LET scan == Scan(src)
       IN /\ pending = scan.comments
          /\ lexOk = scan.ok
    /\ blocks = <<>>
    /\ toplevel = <<>>
    /\ ifStack = <<>>
    /\ scopeStack = <<>>
    /\ errors = <<>>
    /\ pc = "parse"
    /\ failure = NoFailure
    /\ evalLog = <<>>
    /\ output = <<>>
    /\ calls = n
    /\ mode = ""
    /\ cli = NoCli
    /\ microtasks = FALSE

\* parse: the tokenizer reports the next comment.
OnComment ==
    /\ pc = "parse"
    /\ pending # <<>>
    /\ LET P == onComment(ParseState, Head(pending))
       IN /\ blocks' = P.blocks
          /\ toplevel' = P.toplevel
          /\ ifStack' = P.ifStack
          /\ scopeStack' = P.scopeStack
          /\ errors' = P.errors
    /\ pending' = Tail(pending)
    /\ UNCHANGED <<code, context, lexOk, pc, failure, evalLog, output, calls,
                   context0, mode, cli, microtasks>>

\* A call that evaluates the blocks parse has built although errors were
\* recorded.
ParseEndLenient ==
    /\ pc = "parse"
    /\ pending = <<>>
    /\ IF ~lexOk
       THEN /\ failure' = [NoFailure EXCEPT !.kind = "SyntaxError"]
            /\ pc' = "failed"
       ELSE /\ pc' = "eval"
            /\ UNCHANGED failure
    /\ errors' = IF lexOk THEN errors \o MissingEndifs(ParseState) ELSE errors
    /\ UNCHANGED <<code, context, pending, lexOk, blocks, toplevel, ifStack,
                   scopeStack, evalLog, output, calls, context0, mode, cli,
                   microtasks>>

\* parse: the end of the scan.  A SyntaxError of the tokenizer leaves parse
\* at once; otherwise the missing_endif entries are added, and parse throws
\* the CondCompParseError or returns toplevel.
ParseEnd ==
    /\ pc = "parse"
    /\ pending = <<>>
    /\ LET all == errors \o MissingEndifs(ParseState)
       IN IF ~lexOk
          THEN /\ failure' = [NoFailure EXCEPT !.kind = "SyntaxError"]
               /\ pc' = "failed"
               /\ UNCHANGED errors
          ELSE /\ errors' = all
               /\ IF Len(all) > 0
                  THEN /\ failure' = [NoFailure EXCEPT !.kind = "parse", !.entries = all]
                       /\ pc' = "failed"
                  ELSE /\ pc' = "eval"
                       /\ UNCHANGED failure
    /\ UNCHANGED <<code, context, pending, lexOk, blocks, toplevel, ifStack,
                   scopeStack, evalLog, output, calls, context0, mode, cli,
                   microtasks>>

\* evaluateIfs (sync = FALSE) and evaluateIfsSync (sync = TRUE).
Evaluate(sync) ==
    /\ pc = "eval"
    /\ mode' = IF sync THEN "condCompSync" ELSE "condComp"
    /\ IF sync /\ HasAwait(blocks)
       THEN /\ failure' = makeEvaluationError(
                              [cause |-> "Error", origin |-> 0, line |-> 0, column |-> 0])
            /\ pc' = "failed"
            /\ UNCHANGED <<context, evalLog, blocks, microtasks>>
       ELSE LET r == RunProgram(blocks, toplevel, context, sync)
            IN /\ context' = r.ctx
               /\ microtasks' = r.jobs
               /\ evalLog' = r.log
               /\ IF r.thrown
                  THEN /\ failure' = makeEvaluationError(r.err)
                       /\ pc' = "failed"
                       /\ UNCHANGED blocks
                  ELSE /\ blocks' = setEvaluationResults(blocks, toplevel, r.res, 1)
                       /\ pc' = "apply"
                       /\ UNCHANGED failure
    /\ UNCHANGED <<code, pending, lexOk, toplevel, ifStack, scopeStack, errors,
                   output, calls, context0, cli>>

EvaluateAsync == Evaluate(FALSE)

EvaluateSync == Evaluate(TRUE)

\* apply, and the return of the call.
Apply ==
    /\ pc = "apply"
    /\ output' = apply(code, blocks, toplevel)
    /\ pc' = "done"
    /\ UNCHANGED <<code, context, pending, lexOk, blocks, toplevel, ifStack,
                   scopeStack, errors, failure, evalLog, calls, context0, mode, cli,
                   microtasks>>

----------------------------------------------------------------------------
(* Sources *)

MaxDirectives == 6

Dir(tag, g) == [tag |-> tag, g |-> g]

\* "// #tag" or "// #tag g"
DirLine(d) ==
    <<"/", "/", " ", d.tag>> \o (IF d.g = "" THEN <<>> ELSE <<" ", d.g>>)

RECURSIVE Render(_)
Render(ds) ==
    IF ds = <<>> THEN <<>>
    ELSE DirLine(Head(ds)) \o <<"LF", "x", "LF">> \o Render(Tail(ds))

\* The guards of the sources of Spec.
Guards == {"A", "A=1", "T!", "N!"}

\* Well-nested directive sequences of exactly n directives: Forests(n) are
\* sequences of whole If blocks, Chains(m) what follows an #if or #elseif
\* directive up to and including its #endif.
RECURSIVE Forests(_)
RECURSIVE Chains(_)
Forests(n) ==
    IF n = 0 THEN {<<>>}
    ELSE UNION {{<<Dir("#if", g)>> \o t \o f :
                    g \in Guards, t \in Chains(k - 1), f \in Forests(n - k)} :
                k \in 2..n}

Chains(m) ==
    UNION {
        (IF m - j = 1 THEN {f \o <<Dir("#endif", "")>> : f \in Forests(j)} ELSE {})
        \cup
        (IF m - j >= 2
         THEN {f \o <<Dir("#elseif", g)>> \o t :
                  f \in Forests(j), g \in Guards, t \in Chains(m - j - 1)}
              \cup
              {f \o <<Dir("#else", "")>> \o f2 \o <<Dir("#endif", "")>> :
                  f \in Forests(j), f2 \in Forests(m - j - 2)}
         ELSE {}) :
        j \in 0..(m - 1)}

Sources == {<<"x", "LF">> \o Render(f) : f \in UNION {Forests(n) : n \in 1..MaxDirectives}}

Contexts == [A : BOOLEAN]

Init == \E src \in Sources, ctx \in Contexts : Start(src, ctx, 1)

Next == OnComment \/ ParseEnd \/ EvaluateAsync \/ EvaluateSync \/ Apply

Spec == Init /\ [][Next]_vars

\* Arbitrary directive sequences, well nested or not: each line is one of
\* the lines below, followed by a line of code.
MaxTags == 4

TagLines ==
    { <<"/", "/", " ", "#if", " ", "A">>,
      <<" ", "/", "/", " ", "#if", " ", "A">>,
      <<"/", "/", " ", "#if">>,
      <<"/", "/", " ", "#elseif", " ", "A">>,
      <<" ", "/", "/", "#elseif", " ", NotAnExpr>>,
      <<"/", "/", " ", "#else">>,
      <<"/", "/", " ", "#endif">> }

RECURSIVE TagTexts(_)
TagTexts(n) ==
    IF n = 0 THEN {<<>>}
    ELSE {l \o <<"LF", "x", "LF">> \o t : l \in TagLines, t \in TagTexts(n - 1)}

ParseSources == UNION {TagTexts(n) : n \in 1..MaxTags}

InitParse == \E src \in ParseSources : Start(src, [A |-> TRUE], 1)

SpecParse == InitParse /\ [][Next]_vars

\* The caller runs the transform again on the text a finished call returned,
\* with the same context object, once no promise reaction is waiting.
MaxCalls == 2

CallAgain ==
    /\ pc = "done"
    /\ ~microtasks
    /\ calls < MaxCalls
    /\ code' = output
    /\ context0' = context
    /\ LET scan == Scan(output)
       IN /\ pending' = scan.comments
          /\ lexOk' = scan.ok
    /\ blocks' = <<>>
    /\ toplevel' = <<>>
    /\ ifStack' = <<>>
    /\ scopeStack' = <<>>
    /\ errors' = <<>>
    /\ pc' = "parse"
    /\ failure' = NoFailure
    /\ evalLog' = <<>>
    /\ output' = <<>>
    /\ calls' = calls + 1
    /\ mode' = ""
    /\ UNCHANGED <<context, cli, microtasks>>

\* The caller calls again with the same source and the same context object,
\* after a call that returned or failed and once no promise reaction is
\* waiting.
CallSame ==
    /\ pc \in {"done", "failed"}
    /\ ~microtasks
    /\ calls < MaxCalls
    /\ context0' = context
    /\ LET scan == Scan(code)
       IN /\ pending' = scan.comments
          /\ lexOk' = scan.ok
    /\ blocks' = <<>>
    /\ toplevel' = <<>>
    /\ ifStack' = <<>>
    /\ scopeStack' = <<>>
    /\ errors' = <<>>
    /\ pc' = "parse"
    /\ failure' = NoFailure
    /\ evalLog' = <<>>
    /\ output' = <<>>
    /\ calls' = calls + 1
    /\ mode' = ""
    /\ UNCHANGED <<code, context, cli, microtasks>>

\* Sources of repeated calls: well-nested sequences of up to
\* MaxCallDirectives directives, those sequences with await guards
\* (await A and await (A)) in place of the throwing ones, and both with the
\* last #endif missing or with an #else before the first #if.
MaxCallDirectives == 4

AwaitGuards(f) ==
    [k \in DOMAIN f |->
        [f[k] EXCEPT !.g = IF @ = "T!" THEN "aw"
                           ELSE IF @ = "N!" THEN "aw()" ELSE @]]

CallForests ==
    LET plain == UNION {Forests(n) : n \in 1..MaxCallDirectives}
    IN plain \cup {AwaitGuards(f) : f \in plain}

CallSources ==
    {<<"x", "LF">> \o Render(f) : f \in CallForests}
    \cup {<<"x", "LF">> \o Render(SubSeq(f, 1, Len(f) - 1)) : f \in CallForests}
    \cup {Render(<<Dir("#else", "")>> \o f) : f \in CallForests}

\* After a call has returned or thrown, the promise reaction that a guard
\* queued and that no await of the program let run takes its turn.
RunJobs ==
    /\ pc \in {"done", "failed"}
    /\ microtasks
    /\ context' = [context EXCEPT !.A = TRUE]
    /\ microtasks' = FALSE
    /\ UNCHANGED <<code, pending, lexOk, blocks, toplevel, ifStack, scopeStack,
                   errors, pc, failure, evalLog, output, calls, context0, mode, cli>>

\* Sources for the two entry points: well-nested sequences of up to
\* MaxModeDirectives directives, and those sequences with a guard that
\* queues a promise reaction and a guard that awaits in place of the
\* throwing ones.
MaxModeDirectives == 4

DeferringGuards(f) ==
    [k \in DOMAIN f |->
        [f[k] EXCEPT !.g = IF @ = "N!" THEN "P!"
                           ELSE IF @ = "T!" THEN "aw()" ELSE @]]

ModeSources ==
    LET plain == UNION {Forests(n) : n \in 1..MaxModeDirectives}
    IN {<<"x", "LF">> \o Render(f) : f \in plain \cup {DeferringGuards(f) : f \in plain}}

InitModes == \E src \in ModeSources, ctx \in Contexts : Start(src, ctx, 1)

NextModes == Next \/ RunJobs

SpecModes == InitModes /\ [][NextModes]_vars

\* The first call is given a context in which A is false.
InitCalls == \E src \in CallSources : Start(src, [A |-> FALSE], 1)

NextCalls == Next \/ CallSame

SpecCalls == InitCalls /\ [][NextCalls]_vars

\* Texts of up to MaxText pieces: code, blanks, line breaks, slashes, block
\* comments and the tag #if, in any order.
MaxText == 4

TextPieces ==
    { <<"x">>, <<" ">>, <<"LF">>, <<"/">>, <<"#if">>,
      <<"/", "*", " ", "x", "*", "/">> }

RECURSIVE Texts(_)
Texts(n) ==
    IF n = 0 THEN {<<>>}
    ELSE {t \o piece : t \in Texts(n - 1), piece \in TextPieces}

\* One If block whose directives are line or block comments, with code,
\* a division or a regular expression literal around them.
IfTexts ==
    { pre \o ifc \o body \o endc \o post :
        pre  \in { <<>>, <<"x", " ">>, <<"x", "/", " ">>, <<"LF">> },
        ifc  \in { <<"/", "*", "#if", " ", g, "*", "/">> : g \in {"A", "!A"} }
                 \cup { <<"/", "/", " ", "#if", " ", g, "LF">> : g \in {"A", "!A"} },
        body \in { <<>>, <<"x">>, <<"x", "LF">>, <<"/", "#endif", " ", "/", "LF">> },
        endc \in { <<"/", "/", " ", "#endif">>, <<"/", "*", "#endif", "*", "/">> },
        post \in { <<>>, <<"LF", "x">> } }

TextSources == UNION {Texts(n) : n \in 0..MaxText} \cup IfTexts

InitText == \E src \in TextSources, ctx \in Contexts : Start(src, ctx, 1)

NextText == Next \/ CallAgain

SpecText == InitText /\ [][NextText]_vars

\* An #if and an #elseif with guard texts of up to MaxAtoms atoms: nothing,
\* blanks, or expressions and texts that are none, separated by blanks; as
\* line comments or as block comments, the #elseif indented.
MaxAtoms == 2

Atoms == {"A"} \cup InvalidTexts

RECURSIVE AtomTexts(_)
AtomTexts(n) ==
    IF n = 1 THEN {<<a>> : a \in Atoms}
    ELSE {<<a, " ">> \o t : a \in Atoms, t \in AtomTexts(n - 1)}

GuardTexts ==
    {<<>>, <<" ">>}
    \cup {<<" ">> \o t \o tail :
             t \in UNION {AtomTexts(n) : n \in 1..MaxAtoms}, tail \in {<<>>, <<" ">>}}

ExprSources ==
    { <<"/", "/", " ", "#if">> \o r1 \o <<"LF", "x", "LF">>
          \o <<" ", "/", "/", "#elseif">> \o r2 \o <<"LF", "x", "LF">>
          \o <<"/", "/", " ", "#endif", "LF">> :
        r1 \in GuardTexts, r2 \in GuardTexts }
    \cup
    { <<"x", " ", "/", "*", " ", "#if">> \o r1 \o <<"*", "/", "x", "LF">>
          \o <<"/", "*", "#endif", "*", "/">> :
        r1 \in GuardTexts }

InitExpr == \E src \in ExprSources : Start(src, [A |-> TRUE], 1)

SpecExpr == InitExpr /\ [][Next]_vars

\* A block comment of up to MaxLines lines, each line one of CommentLines,
\* between code, followed by code and a block comment #endif.
MaxLines == 3

CommentLines ==
    { <<>>,
      <<"*">>,
      <<"x">>,
      <<" ", "*", " ", "#if", " ", "A">>,
      <<"#if", " ", "!A">>,
      <<" ", "*", " ", "#endif">>,
      <<"*", "*", "#if", " ", "A">>,
      <<"x", " ", "#if", " ", "A">> }

RECURSIVE CommentBodies(_, _)
CommentBodies(n, sep) ==
    IF n = 1 THEN CommentLines
    ELSE {l \o sep \o b : l \in CommentLines, b \in CommentBodies(n - 1, sep)}

BlockSources ==
    { <<"x", "LF", "/", "*">> \o body
          \o <<"*", "/", "LF", "x", "LF", "/", "*", " ", "#endif", " ", "*", "/">> :
        body \in UNION {CommentBodies(n, sep) :
                           n \in 1..MaxLines, sep \in {<<"LF">>, <<"CR", "LF">>}} }

InitBlock == \E src \in BlockSources : Start(src, [A |-> TRUE], 1)

SpecBlock == InitBlock /\ [][Next]_vars

\* The command line program builds the context of its condComp calls.
\* Keys and string values are character sequences; JsTrue is the boolean.
JsTrue == [t |-> "boolean", v |-> <<"true">>]

JsString(str) == [t |-> "string", v |-> str]

\* v.indexOf(ch), searching from offset from.
RECURSIVE indexOf(_, _, _)
indexOf(v, ch, from) ==
    IF from >= Len(v) THEN -1
    ELSE IF v[from + 1] = ch THEN from
    ELSE indexOf(v, ch, from + 1)

parseVar(v) ==
    LET equalPos == indexOf(v, "=", 0)
    IN IF equalPos = -1
       THEN [key |-> v, value |-> JsTrue]
       ELSE [key |-> Slice(v, 0, equalPos),
             value |-> JsString(Slice(v, equalPos + 1, Len(v)))]

\* context[key] = value
SetKey(ctx, key, value) ==
    [k \in DOMAIN ctx \cup {key} |-> IF k = key THEN value ELSE ctx[k]]

\* Object.assign(context, expanded.parsed): the entries of an env file are
\* strings.
ObjectAssign(ctx, parsed) ==
    [k \in DOMAIN ctx \cup DOMAIN parsed |->
        IF k \in DOMAIN parsed THEN JsString(parsed[k]) ELSE ctx[k]]

\* createContext: the env file, if the option is given.
ReadEnv ==
    /\ pc = "env"
    /\ context' = IF cli.env.defined THEN ObjectAssign(context, cli.env.parsed)
                  ELSE context
    /\ pc' = "var"
    /\ UNCHANGED <<code, pending, lexOk, blocks, toplevel, ifStack, scopeStack,
                   errors, failure, evalLog, output, calls, context0, mode, cli,
                   microtasks>>

\* A loop that leaves a key alone that the context holds already.
AddVarUnlessSet ==
    /\ pc = "var"
    /\ cli.i < Len(cli.var)
    /\ LET kv == parseVar(cli.var[cli.i + 1])
       IN context' = IF kv.key \in DOMAIN context THEN context
                     ELSE SetKey(context, kv.key, kv.value)
    /\ cli' = [cli EXCEPT !.i = @ + 1]
    /\ UNCHANGED <<code, pending, lexOk, blocks, toplevel, ifStack, scopeStack,
                   errors, pc, failure, evalLog, output, calls, context0, mode,
                   microtasks>>

\* createContext: one round of the loop over options.var.
AddVar ==
    /\ pc = "var"
    /\ cli.i < Len(cli.var)
    /\ LET kv == parseVar(cli.var[cli.i + 1])
       IN context' = SetKey(context, kv.key, kv.value)
    /\ cli' = [cli EXCEPT !.i = @ + 1]
    /\ UNCHANGED <<code, pending, lexOk, blocks, toplevel, ifStack, scopeStack,
                   errors, pc, failure, evalLog, output, calls, context0, mode,
                   microtasks>>

\* createContext: return context.
ReturnContext ==
    /\ pc = "var"
    /\ cli.i = Len(cli.var)
    /\ pc' = "ready"
    /\ context0' = context
    /\ UNCHANGED <<code, context, pending, lexOk, blocks, toplevel, ifStack,
                   scopeStack, errors, failure, evalLog, output, calls, mode, cli,
                   microtasks>>

\* Command lines: up to MaxVars values of -v, and no env file or one with
\* entries for some of the keys A and B.
MaxVars == 2

VarArgs ==
    { <<"A">>, <<"A", "=">>, <<"A", "=", "1">>, <<"A", "=", "1", "=", "1">>,
      <<"B">>, <<"B", "=", "0">>, <<"=", "1">> }

RECURSIVE VarLists(_)
VarLists(n) ==
    IF n = 0 THEN {<<>>}
    ELSE {<<v>> \o l : v \in VarArgs, l \in VarLists(n - 1)}

EnvFiles ==
    {[defined |-> FALSE, parsed |-> <<>>]}
    \cup {[defined |-> TRUE, parsed |-> f] :
             f \in UNION {[K -> {<<>>, <<"0">>}] : K \in SUBSET {<<"A">>, <<"B">>}}}

InitCli ==
    /\ \E env \in EnvFiles, var \in UNION {VarLists(n) : n \in 0..MaxVars} :
          cli = [env |-> env, var |-> var, i |-> 0]
    /\ context = <<>>
    /\ context0 = <<>>
    /\ pc = "env"
    /\ code = <<>>
    /\ pending = <<>>
    /\ lexOk = TRUE
    /\ blocks = <<>>
    /\ toplevel = <<>>
    /\ ifStack = <<>>
    /\ scopeStack = <<>>
    /\ errors = <<>>
    /\ failure = NoFailure
    /\ evalLog = <<>>
    /\ output = <<>>
    /\ calls = 0
    /\ mode = ""
    /\ microtasks = FALSE

NextCli == ReadEnv \/ AddVar \/ ReturnContext

SpecCli == InitCli /\ [][NextCli]_vars

\* One If block whose directives follow runs of up to MaxRun whitespace
\* characters: the first character of a run is any of the list, the others
\* are blanks, tabs or no-break spaces; before the #if line nothing, code
\* a line, or empty lines.
MaxRun == 2

RECURSIVE Runs(_)
Runs(n) ==
    IF n = 0 THEN {<<>>}
    ELSE {<<>>} \cup {<<w>> : w \in whitespace} \cup
         {r \o <<w>> : r \in Runs(n - 1) \ {<<>>}, w \in {" ", "TAB", "NBSP"}}

TrimSources ==
    { pre \o run \o <<"/", "/", " ", "#if", " ", "A", "LF", "x">> \o run2
          \o <<"/", "/", " ", "#endif">> :
        pre \in {<<>>, <<"x">>, <<"x", "LF">>, <<"x", "CR", "LF">>, <<"x", "PS">>,
                 <<"LF">>, <<"CR", "LF">>, <<"LS">>, <<"PS">>, <<"CR">>,
                 <<"LF", "LF">>, <<"LF", "x", "LF">>},
        run \in Runs(MaxRun), run2 \in {<<>>, <<" ">>, <<"LF", "BOM">>} }

InitTrim == \E src \in TrimSources : Start(src, [A |-> TRUE], 1)

SpecTrim == InitTrim /\ [][Next]_vars

\* One If block laid out in lines: code or nothing before the #if line, the
\* directives indented or not, after code or not, each line ended by any
\* of the line terminator sequences, and the text ended in several ways.
Terminators == {<<"LF">>, <<"CR">>, <<"CR", "LF">>, <<"LS">>, <<"PS">>}

Heads == {<<>>, <<"x">>} \cup {<<"x">> \o t : t \in Terminators}

Endings ==
    {<<>>} \cup {t \o tail : t \in Terminators,
                             tail \in {<<>>, <<"x">>, <<"LF">>, <<"CR">>}}

LineLayouts ==
    { head \o ind \o <<"/", "/", " ", "#if", " ", g>> \o t1 \o <<"x">> \o tb
           \o ind2 \o <<"/", "/", " ", "#endif">> \o ending :
        head \in Heads, ind \in {<<>>, <<"TAB", " ">>}, g \in {"A", "!A"},
        t1 \in Terminators, tb \in {<<>>, <<"LF">>, <<"CR", "LF">>},
        ind2 \in {<<>>, <<" ">>}, ending \in Endings }

\* Block comment directives with code after them on the same line.
BlockLayouts ==
    { head \o ind \o <<"/", "*", "#if", " ", g, "*", "/">> \o gap \o <<"x">>
           \o ind2 \o <<"/", "*", "#endif", "*", "/">> \o gap \o <<"x">> \o t :
        head \in {<<>>, <<"x">>, <<"x", "LF">>}, ind \in {<<>>, <<" ">>},
        g \in {"A", "!A"}, gap \in {<<>>, <<" ">>},
        ind2 \in {<<>>, <<" ">>, <<"LF">>}, t \in {<<>>, <<"LF">>} }

SlurpSources == LineLayouts \cup BlockLayouts

InitSlurp == \E src \in SlurpSources : Start(src, [A |-> TRUE], 1)

SpecSlurp == InitSlurp /\ [][Next]_vars

----------------------------------------------------------------------------
(* Vocabulary of the properties *)

Range(f) == {f[k] : k \in DOMAIN f}

BlockIds == 1..Len(blocks)

IfIds == {i \in BlockIds : blocks[i].type = "if"}

\* The If a guard belongs to: the If itself, or the If of an ElseIf.
IfOf(id) ==
    IF blocks[id].type = "if" THEN id
    ELSE CHOOSE i \in IfIds : id \in Range(blocks[i].elseIfs)

\* The branch (If, ElseIf or Else block) whose body holds If i; 0 at top level.
Holder(i) ==
    IF \E h \in BlockIds : i \in Range(blocks[h].children)
    THEN CHOOSE h \in BlockIds : i \in Range(blocks[h].children)
    ELSE 0

\* The guards that were executed, and what each gave.
Executed == {evalLog[k].block : k \in DOMAIN evalLog}

Outcome(id) ==
    IF id \in Executed
    THEN evalLog[CHOOSE k \in DOMAIN evalLog : evalLog[k].block = id].outcome
    ELSE "none"

\* The directives of If i in source order: the #if, the #elseifs, the #else.
Directives(i) ==
    <<i>> \o blocks[i].elseIfs \o (IF blocks[i].else = 0 THEN <<>> ELSE <<blocks[i].else>>)

\* Index in Directives(i) of the branch numbered b; 0 when b = -1 and the If
\* has no #else.
BranchIndex(i, b) ==
    IF b >= 0 THEN b + 1
    ELSE IF blocks[i].else = 0 THEN 0 ELSE Len(Directives(i))

\* The offsets of the body of branch b of If i: from the end of the branch's
\* directive to the start of the next directive of the If.
Body(i, b) ==
    LET ds == Directives(i)
        t  == BranchIndex(i, b)
    IN IF t = 0 THEN {}
       ELSE blocks[ds[t]].end ..
            ((IF t < Len(ds) THEN blocks[ds[t + 1]].start ELSE blocks[i].endif.start) - 1)

\* The offsets from the #if comment to the end of the #endif comment.
Span(i) == blocks[i].start .. (blocks[i].endif.end - 1)

Reached == {i \in IfIds : blocks[i].takenBranch # <<>>}

Succeeded == pc \in {"apply", "done"}

Kept == Range(applyOffsets(code, blocks, toplevel))

----------------------------------------------------------------------------
(* C1: for every If whose guards are evaluated in a successful run,        *)
(* takenBranch is 0 when the #if guard is truthy, otherwise the 1-based    *)
(* index of the first truthy #elseif (all earlier guards of the If being   *)
(* falsy), otherwise -1; and the text kept from the If is the body of      *)
(* that branch: nothing of the If outside that body is in the output, and  *)
(* the code of that body outside nested Ifs is.                            *)

TruthyElseIfs(i) ==
    {k \in DOMAIN blocks[i].elseIfs : Outcome(blocks[i].elseIfs[k]) = "truthy"}

ExpectedBranch(i) ==
    IF Outcome(i) = "truthy" THEN 0
    ELSE IF TruthyElseIfs(i) # {}
         THEN CHOOSE k \in TruthyElseIfs(i) : \A j \in TruthyElseIfs(i) : k <= j
    ELSE -1

C1_BranchOk(i) ==
    LET b == ExpectedBranch(i)
    IN /\ blocks[i].takenBranch = <<b>>
       /\ b # 0 => Outcome(i) = "falsy"
       /\ \A k \in DOMAIN blocks[i].elseIfs :
             (b = -1 \/ k < b) => Outcome(blocks[i].elseIfs[k]) = "falsy"

C1_BodyOk ==
    /\ \A i \in Reached :
          \A p \in Span(i) \ Body(i, blocks[i].takenBranch[1]) : p \notin Kept
    /\ \A p \in 0..(Len(code) - 1) :
          (/\ code[p + 1] = "x"
           /\ \A i \in Reached : p \in Span(i) => p \in Body(i, blocks[i].takenBranch[1]))
          => p \in Kept
    /\ output = TextAt(code, applyOffsets(code, blocks, toplevel))

C1_TakenBranch ==
    /\ Succeeded => \A i \in IfIds \cap Executed : C1_BranchOk(i)
    /\ pc = "done" => C1_BodyOk

\* The second #elseif of an If with an #else is the first truthy guard.
C1_Witness ==
    /\ pc = "done"
    /\ \E i \in IfIds :
          /\ blocks[i].takenBranch = <<2>>
          /\ blocks[i].else # 0
          /\ \E p \in Body(i, 2) : p \in Kept /\ code[p + 1] = "x"

----------------------------------------------------------------------------
(* C2: the guard of an If or ElseIf nested inside a branch that is not     *)
(* taken is never executed: every executed guard is at top level or lies   *)
(* in the body of a branch whose own guard was executed and truthy (for    *)
(* an #else body: all guards of its If were executed and falsy); so the    *)
(* context is what the executed guards made of it, and a failure stems     *)
(* from an executed guard.                                                 *)

AllFalsy(i) ==
    /\ Outcome(i) = "falsy"
    /\ \A k \in DOMAIN blocks[i].elseIfs : Outcome(blocks[i].elseIfs[k]) = "falsy"

\* The branch h was selected by the guards that were executed.
Selected(h) ==
    IF blocks[h].type = "else"
    THEN AllFalsy(CHOOSE i \in IfIds : blocks[i].else = h)
    ELSE Outcome(h) = "truthy"

\* The context after the guards of the log, from the context of the call.
AfterLog ==
    IF evalLog = <<>> THEN context0
    ELSE LET last == evalLog[Len(evalLog)]
         IN RunGuard(blocks[last.block].expression, last.before).ctx

C2_UntakenNeverRun ==
    /\ \A id \in Executed : Holder(IfOf(id)) = 0 \/ Selected(Holder(IfOf(id)))
    /\ context = AfterLog
    /\ failure.origin # 0 => failure.origin \in Executed

\* A run that ends well although an If in a branch that was not taken has a
\* guard that throws or assigns: the guard was not run, the context is as
\* the caller gave it.
C2_Witness ==
    /\ pc = "done"
    /\ context = context0
    /\ \E i \in IfIds : /\ Holder(i) # 0
                        /\ i \notin Executed
                        /\ blocks[i].expression = "T!"
    /\ \E i \in IfIds : /\ Holder(i) # 0
                        /\ i \notin Executed
                        /\ blocks[i].expression = "A=1"
                        /\ ~context0.A

----------------------------------------------------------------------------
(* C3: the guards that are evaluated are evaluated in source order, and    *)
(* each one is evaluated in the context as the guard before it left it:    *)
(* the first in the context of the call, and the outcome of each is that   *)
(* of its expression in that context.                                      *)

GuardOutcome(expression, ctx) ==
    LET g == RunGuard(expression, ctx)
    IN IF g.throws THEN "throws" ELSE IF g.value THEN "truthy" ELSE "falsy"

C3_SourceOrder ==
    /\ evalLog # <<>> => evalLog[1].before = context0
    /\ \A k \in DOMAIN evalLog :
          /\ evalLog[k].outcome =
                 GuardOutcome(blocks[evalLog[k].block].expression, evalLog[k].before)
          /\ k < Len(evalLog) =>
                /\ blocks[evalLog[k].block].start < blocks[evalLog[k + 1].block].start
                /\ evalLog[k + 1].before =
                       RunGuard(blocks[evalLog[k].block].expression,
                                evalLog[k].before).ctx

\* A parent, then its child, then a later top-level If that reads as true
\* the variable a guard nested in the parent has set.
C3_Witness ==
    /\ pc = "done"
    /\ ~context0.A
    /\ \E k, l \in DOMAIN evalLog :
          /\ k < l
          /\ blocks[evalLog[k].block].expression = "A=1"
          /\ Holder(IfOf(evalLog[k].block)) # 0
          /\ blocks[evalLog[l].block].expression = "A"
          /\ evalLog[l].outcome = "truthy"
          /\ Holder(IfOf(evalLog[l].block)) = 0

----------------------------------------------------------------------------
(* C4: when a guard throws, the evaluation failure carries the line and    *)
(* column of the directive whose guard threw, at every nesting depth.      *)

C4_OwnLineColumn ==
    (pc = "failed" /\ failure.kind = "eval" /\ failure.origin # 0) =>
        /\ failure.line = blocks[failure.origin].line
        /\ failure.column = blocks[failure.origin].column

----------------------------------------------------------------------------
(* C5: the first guard that throws ends the run of the batch program: it   *)
(* is the last guard executed, the call fails, and the evaluation failure  *)
(* stems from that guard, also when a guard that would have run later      *)
(* throws too.                                                             *)

Throwers == {k \in DOMAIN evalLog : evalLog[k].outcome = "throws"}

----------------------------------------------------------------------------
(* Vocabulary of the parse properties *)

\* The directive comments of the source, as the tokenizer reports them.
DirectiveComments ==
    SelectSeq(Scan(code).comments,
              LAMBDA c : MatchDirective(c.isBlock, c.text).matched)

TagOf(c) == MatchDirective(c.isBlock, c.text).tag

\* The directive is an #if or #elseif whose guard text is missing or is not
\* one expression.
InvalidGuard(c) ==
    LET m == MatchDirective(c.isBlock, c.text)
    IN /\ m.tag \in {"#if", "#elseif"}
       /\ \/ m.rawExpression = <<>>
          \/ parseExpression(m.rawExpression).error

ParseEnded == pc # "parse" /\ lexOk

Missing == SelectSeq(errors, LAMBDA e : e.subtype = "missing_endif")

NonMissing == SelectSeq(errors, LAMBDA e : e.subtype # "missing_endif")

WithoutIfSubtypes == {"elseif_without_if", "else_without_if", "endif_without_if"}

HasEntry(es, subtype, line, column) ==
    \E k \in DOMAIN es : es[k] = ErrorEntry(subtype, line, column)

Dummies == {i \in IfIds : blocks[i].dummy}

----------------------------------------------------------------------------
(* C6: parse never stops at the first error.  When parse has ended every   *)
(* directive of the source has been processed (each #if, #elseif, #else    *)
(* has its block, each invalid guard and each unmatched #endif its entry), *)
(* parse has returned the top-level list iff no error was recorded, and    *)
(* otherwise the one parse failure holds all recorded errors: those of the *)
(* directives in the order of the directives, then the missing_endif ones. *)

C6_AllErrorsTogether ==
    ParseEnded =>
        /\ pending = <<>>
        /\ Len(blocks) = Cardinality(Dummies) +
              Len(SelectSeq(DirectiveComments, LAMBDA c : TagOf(c) # "#endif"))
        /\ \A k \in DOMAIN DirectiveComments :
              LET c == DirectiveComments[k]
              IN InvalidGuard(c) =>
                     HasEntry(errors, "invalid_expression", c.line, c.column)
        /\ (errors = <<>>) <=> (pc \in {"eval", "apply", "done"} \/ failure.kind # "parse")
        /\ errors # <<>> =>
              /\ pc = "failed"
              /\ failure.kind = "parse"
              /\ failure.entries = errors
              /\ output = <<>>
        /\ errors = NonMissing \o Missing
        /\ \A k \in DOMAIN NonMissing :
              k < Len(NonMissing) => NonMissing[k].line <= NonMissing[k + 1].line

\* One failure with the errors of three different directives and a
\* missing_endif entry after them.
C6_Witness ==
    /\ pc = "failed"
    /\ failure.kind = "parse"
    /\ Len(NonMissing) >= 3
    /\ NonMissing[1].line < NonMissing[2].line
    /\ NonMissing[2].line < NonMissing[3].line
    /\ Missing # <<>>
    /\ failure.entries = NonMissing \o Missing

----------------------------------------------------------------------------
(* C7: at the end of input each If that is still open, a dummy If too,     *)
(* has exactly one missing_endif entry with its own line and column, an If *)
(* closed by an #endif has none, and the entries are listed outermost If   *)
(* first: each next entry is for an If in a branch of the If before it.    *)

OpenIfs == {i \in IfIds : blocks[i].endif = NoEndif}

\* The open If a missing_endif entry is for.
IfAt(e) == CHOOSE i \in IfIds : blocks[i].line = e.line /\ blocks[i].column = e.column

C7_MissingEndifs ==
    ParseEnded =>
        /\ Len(Missing) = Cardinality(OpenIfs)
        /\ \A i \in OpenIfs :
              Cardinality({k \in DOMAIN Missing :
                              /\ Missing[k].line = blocks[i].line
                              /\ Missing[k].column = blocks[i].column}) = 1
        /\ \A i \in IfIds \ OpenIfs :
              \A k \in DOMAIN Missing : Missing[k].line # blocks[i].line
        /\ Missing # <<>> => Holder(IfAt(Missing[1])) = 0
        /\ \A k \in DOMAIN Missing :
              k < Len(Missing) =>
                  LET h == Holder(IfAt(Missing[k + 1]))
                  IN /\ h # 0
                     /\ h \in Range(Directives(IfAt(Missing[k])))

\* A dummy If left open, a closed If inside it, and an indented If left
\* open inside it.
C7_Witness ==
    /\ pc = "failed"
    /\ Len(Missing) = 2
    /\ blocks[IfAt(Missing[1])].dummy
    /\ ~blocks[IfAt(Missing[2])].dummy
    /\ Missing[2].column = 1
    /\ IfIds \ OpenIfs # {}

----------------------------------------------------------------------------
(* C8: an #elseif or #else met while no If is open records exactly one     *)
(* elseif_without_if / else_without_if error at its position and opens a  *)
(* dummy If that holds it; an #elseif, #else or #endif met while the dummy *)
(* is the innermost open If is attached to the dummy (the #endif closes    *)
(* it) and records no *_without_if or endif_without_if error.              *)

\* The errors a step has added.
NewErrors == SubSeq(errors', Len(errors) + 1, Len(errors'))

NewWithoutIf == SelectSeq(NewErrors, LAMBDA e : e.subtype \in WithoutIfSubtypes)

C8_Step ==
    (pc = "parse" /\ pending # <<>> /\ pending' = Tail(pending)) =>
        LET c   == Head(pending)
            m   == MatchDirective(c.isBlock, c.text)
            new == Len(blocks) + 1
            top == Top(ifStack)
        IN /\ (m.tag \in {"#elseif", "#else"} /\ ifStack = <<>>) =>
                 /\ NewWithoutIf =
                        <<ErrorEntry(IF m.tag = "#elseif" THEN "elseif_without_if"
                                     ELSE "else_without_if", c.line, c.column)>>
                 /\ Len(ifStack') = 1
                 /\ blocks'[ifStack'[1]].dummy
                 /\ blocks'[ifStack'[1]].type = "if"
                 /\ blocks'[ifStack'[1]].line = c.line
                 /\ blocks'[ifStack'[1]].column = c.column
                 /\ IF m.tag = "#elseif"
                    THEN blocks'[ifStack'[1]].elseIfs = <<new>>
                    ELSE blocks'[ifStack'[1]].else = new
           /\ (m.tag \in {"#elseif", "#else", "#endif"} /\ top # 0 /\ blocks[top].dummy) =>
                 /\ NewWithoutIf = <<>>
                 /\ Dummies' = Dummies
                 /\ m.tag = "#elseif" =>
                        /\ blocks'[top].elseIfs = Append(blocks[top].elseIfs, new)
                        /\ ifStack' = ifStack
                 /\ m.tag = "#else" =>
                        /\ blocks'[top].else = new
                        /\ ifStack' = ifStack
                 /\ m.tag = "#endif" =>
                        /\ ifStack' = Pop(ifStack)
                        /\ blocks'[top].endif.start = c.start

C8_DummyRecovery == [][C8_Step]_vars

\* A chain #elseif, #elseif, #else, #endif without an #if: one error, and
\* the dummy If holds both #elseifs and the #else and is closed.
C8_Witness ==
    /\ pc = "failed"
    /\ Len(errors) = 1
    /\ errors[1].subtype = "elseif_without_if"
    /\ \E d \in Dummies : /\ Len(blocks[d].elseIfs) = 2
                          /\ blocks[d].else # 0
                          /\ blocks[d].endif # NoEndif

----------------------------------------------------------------------------
(* C9: for a source text without directive comment, condComp and           *)
(* condCompSync return the text exactly as it is, also when it begins with *)
(* a line terminator or with whitespace, and evaluate no guard.  (The      *)
(* comments of a text are those the tokenizer reports; a text it rejects   *)
(* has none and fails with the tokenizer's SyntaxError.)                   *)

C9_PassThrough ==
    (lexOk /\ DirectiveComments = <<>>) =>
        /\ pc # "failed"
        /\ errors = <<>>
        /\ blocks = <<>>
        /\ evalLog = <<>>
        /\ context = context0
        /\ pc = "done" => output = code

\* A text that begins with a line terminator and holds a comment that is no
\* directive, returned as it is by condCompSync.
C9_Witness ==
    /\ pc = "done"
    /\ calls = 1
    /\ mode = "condCompSync"
    /\ DirectiveComments = <<>>
    /\ Scan(code).comments # <<>>
    /\ code[1] = "LF"
    /\ output = code

----------------------------------------------------------------------------
(* C10: idempotence.  The text a successful call returns contains no       *)
(* directive comment, and the call that is made again on that text with    *)
(* the same context succeeds and returns it unchanged.                     *)

OutputDirectives ==
    SelectSeq(Scan(output).comments,
              LAMBDA c : MatchDirective(c.isBlock, c.text).matched)

C10_Idempotent ==
    /\ pc = "done" => OutputDirectives = <<>>
    /\ calls = 2 =>
          /\ pc # "failed"
          /\ pc = "done" => output = code

----------------------------------------------------------------------------
(* Vocabulary of the layout properties *)

\* The cut list apply works with.
CutList == makeCuts(blocks, toplevel, 1, NewCuts)

\* The directive comments of the block tree: the #if, #elseif and #else
\* blocks and the #endif markers.
DirSpans ==
    {[start |-> blocks[d].start, end |-> blocks[d].end] : d \in BlockIds}
    \cup {[start |-> blocks[i].endif.start, end |-> blocks[i].endif.end] : i \in IfIds}

\* Offset of the first character of the line that holds offset p: a line
\* begins at offset 0 and after each line terminator (LF, CR, LS, PS).
RECURSIVE LineStart(_)
LineStart(p) ==
    IF p = 0 \/ code[p] \in LineTerminators THEN p ELSE LineStart(p - 1)

\* Only horizontal whitespace at the offsets a .. b - 1.
IsWs(a, b) == \A q \in a..(b - 1) : code[q + 1] \in whitespace

\* Length of the line terminator sequence at offset p: 2 for CR LF, 1 for a
\* single terminator, 0 when there is none.
TermLen(p) ==
    IF CharAt(code, p) = "CR" /\ CharAt(code, p + 1) = "LF" THEN 2
    ELSE IF CharAt(code, p) \in LineTerminators THEN 1
    ELSE 0

\* The range of the cut list that removes the directive comment d.
SliceOf(d) ==
    CHOOSE s \in Range(CutList) : s.start <= d.start /\ d.end <= s.end

AloneOnLine(d) == IsWs(LineStart(d.start), d.start) /\ TermLen(d.end) > 0

----------------------------------------------------------------------------
(* C11: a removed directive that is alone on its line (only horizontal     *)
(* whitespace before it, a line terminator sequence right after it) takes  *)
(* its whole line with it: the indentation, the comment and the line       *)
(* terminator sequence after it.  (Where the removed range begins in the   *)
(* middle of an earlier line, the lines merge and the statement is not     *)
(* made.)                                                                  *)

C11_WholeLine ==
    pc = "done" =>
        \A d \in DirSpans :
            (/\ AloneOnLine(d)
             /\ IsWs(LineStart(SliceOf(d).start), SliceOf(d).start))
            => \A p \in LineStart(d.start)..(d.end + TermLen(d.end) - 1) :
                   p \notin Kept

----------------------------------------------------------------------------
(* C12: a removed directive that shares its line with code.                *)

\* The cuts proper: the ranges of the cut list that hold characters.
RealCuts == {c \in Range(CutList) : c.start < c.end}

InCut(p) == \E c \in RealCuts : c.start <= p /\ p < c.end

\* The offsets of the line of directive d, its line terminator included.
OnLine(d) ==
    LineStart(d.start) ..
        (LineEnd(code, d.end) + TermLen(LineEnd(code, d.end)) - 1)

\* The line of d holds code that no cut removes.
SharesLine(d) == \E q \in OnLine(d) : code[q + 1] = "x" /\ ~InCut(q)

\* The run of horizontal whitespace that ends right before offset q.
WsBefore(q) == {r \in 0..(q - 1) : IsWs(r, q)}

(* C12 as stated: a removed directive that shares its line with code       *)
(* removes only the directive comment text; the code on that line and the  *)
(* whitespace around the directive on that line are left intact, so every  *)
(* character of the line outside the cuts is in the output.                *)
C12_OnlyComment ==
    pc = "done" =>
        \A d \in DirSpans :
            SharesLine(d) => \A p \in OnLine(d) : ~InCut(p) => p \in Kept

(* C12 amended: a removed directive that shares its line with code removes *)
(* the directive comment and the horizontal whitespace right before it;    *)
(* the code on that line, the whitespace after the directive and the line  *)
(* terminator are left intact: a character of the line is in the output    *)
(* exactly when it is outside the cuts and outside the whitespace run      *)
(* that ends where a cut begins.                                           *)
C12_CommentAndBlankBefore ==
    pc = "done" =>
        \A d \in DirSpans :
            SharesLine(d) =>
                \A p \in OnLine(d) :
                    p \in Kept <=>
                        /\ ~InCut(p)
                        /\ \A c \in RealCuts : p \notin WsBefore(c.start)

\* Code, a blank, a directive, a blank and code on one line: the blank
\* before the directive is removed, the blank after it and the code stay.
C12_Witness ==
    /\ pc = "done"
    /\ \E d \in DirSpans :
          /\ SharesLine(d)
          /\ SliceOf(d) = d
          /\ d.start >= 2
          /\ code[d.start] = " "
          /\ code[d.start - 1] = "x"
          /\ (d.start - 1) \notin Kept
          /\ (d.start - 2) \in Kept
          /\ CharAt(code, d.end) = " "
          /\ d.end \in Kept
          /\ CharAt(code, d.end + 1) = "x"
          /\ (d.end + 1) \in Kept

----------------------------------------------------------------------------
(* C13: guards are evaluated in the caller's own context object.  When a  *)
(* call has returned or failed the object holds every assignment of the    *)
(* guards that were evaluated; no step other than the evaluation changes   *)
(* it; and a later call given the same object starts from the object as    *)
(* the call before left it.                                                *)

C13_Returned == pc \in {"done", "failed"} => context = AfterLog

C13_Step ==
    /\ pc # "eval" => context' = context
    /\ calls' # calls => context0' = context

C13_CallersOwnContext == [] C13_Returned /\ [][C13_Step]_vars

\* A second call that takes a branch guarded by A, which only a guard of the
\* first call has made true.
C13_Witness ==
    /\ calls = 2
    /\ pc = "done"
    /\ context0.A
    /\ \E i \in IfIds : blocks[i].expression = "A" /\ Outcome(i) = "truthy"

----------------------------------------------------------------------------
(* C14: a condCompSync call on a source with a guard that uses await fails *)
(* with an evaluation failure at line 0, column 0 and returns no text.     *)

AwaitGuarded == \E i \in BlockIds : blocks[i].expression \in {"aw", "aw()"}

C14_SyncAwaitFails ==
    (mode = "condCompSync" /\ AwaitGuarded) =>
        /\ pc = "failed"
        /\ failure.kind = "eval"
        /\ failure.line = 0
        /\ failure.column = 0
        /\ output = <<>>

----------------------------------------------------------------------------
(* C15: once parsing has recorded an error no guard is evaluated: the call *)
(* goes from parse to its failure, which is the parse failure holding the  *)
(* recorded errors, the context is as the caller supplied it and no text   *)
(* is produced.  A call that failed in the evaluation produced no text     *)
(* either.                                                                 *)

C15_NoEffectOnFailure ==
    /\ errors # <<>> =>
          /\ pc \in {"parse", "failed"}
          /\ evalLog = <<>>
          /\ mode = ""
          /\ context = context0
          /\ output = <<>>
          /\ (pc = "failed" /\ lexOk) =>
                 failure.kind = "parse" /\ failure.entries = errors
    /\ pc = "failed" => output = <<>>

\* A parse failure of a source whose first If is complete and has a guard
\* that assigns: the assignment was not made.
C15_Witness ==
    /\ pc = "failed"
    /\ failure.kind = "parse"
    /\ toplevel # <<>>
    /\ blocks[toplevel[1]].expression = "A=1"
    /\ ~context0.A
    /\ context = context0

----------------------------------------------------------------------------
(* C16: when a cut, after the trim of the whitespace on its left, starts   *)
(* at the beginning of a line, exactly one line terminator sequence right  *)
(* after the cut is removed, whichever of LF, CR, CR LF, LS, PS it is, and *)
(* the character after that sequence is not removed with it.               *)

\* Where the removal for cut c starts: the start of c after the trim.
TrimmedStart(c) == slurpAllWhitespaceLeft(code, c.start)

\* Offset e is the beginning of a line.
LineBeginning(e) == e = 0 \/ code[e] \in LineTerminators

\* Offset p is removed by no cut and by no trim before a cut.
OutsideCuts(p) == ~InCut(p) /\ \A c \in RealCuts : p \notin WsBefore(c.start)

C16_OneTerminator ==
    pc = "done" =>
        \A c \in RealCuts :
            LineBeginning(TrimmedStart(c)) =>
                LET next == c.end + TermLen(c.end)
                IN /\ \A p \in c.end..(next - 1) : p \notin Kept
                   /\ (next < Len(code) /\ OutsideCuts(next)) => next \in Kept

----------------------------------------------------------------------------
(* C17: after the trim of the whitespace on its left a cut is treated as   *)
(* starting at the beginning of a line exactly when it starts at offset 0  *)
(* or right after LF, CR, LS or PS: the line terminator sequence after the *)
(* cut (one that the removal on the right recognises) is removed in        *)
(* exactly these cases.                                                    *)

C17_FourTerminators ==
    pc = "done" =>
        \A c \in RealCuts :
            slurpSingleNewLineRight(code, c.end) > c.end =>
                (c.end \notin Kept <=> LineBeginning(TrimmedStart(c)))

----------------------------------------------------------------------------
(* C18: an #elseif or #else that matches an If that already has an Else.   *)

\* The step processes the comment c, an #elseif or #else, while the
\* innermost open If has an Else.
AfterElse(c) ==
    /\ pc = "parse"
    /\ pending # <<>>
    /\ pending' = Tail(pending)
    /\ c = Head(pending)
    /\ TagOf(c) \in {"#elseif", "#else"}
    /\ ifStack # <<>>
    /\ blocks[Top(ifStack)].else # 0

\* The error of the directive c for coming after the Else.
AfterElseEntry(c) ==
    ErrorEntry(IF TagOf(c) = "#elseif" THEN "elseif_after_else" ELSE "duplicate_else",
               c.line, c.column)

\* Parsing goes on and the If has one Else: the one it had after an
\* #elseif, the new one alone after an #else.
ParsingGoesOn(c) ==
    LET top == Top(ifStack)
        new == Len(blocks) + 1
    IN /\ pc' = "parse"
       /\ ifStack' = ifStack
       /\ blocks'[top].else = IF TagOf(c) = "#else" THEN new ELSE blocks[top].else
       /\ TagOf(c) = "#elseif" => blocks'[top].elseIfs = Append(blocks[top].elseIfs, new)

(* C18 as stated: the directive records exactly one error, the             *)
(* elseif_after_else or duplicate_else error at its own line and column;   *)
(* parsing continues and the If has at most one Else.                      *)
C18_ExactlyOneError ==
    [][\A c \in Range(pending) :
          AfterElse(c) => NewErrors = <<AfterElseEntry(c)>> /\ ParsingGoesOn(c)]_vars

(* C18 amended: the directive records exactly one elseif_after_else or     *)
(* duplicate_else error at its own line and column, after the              *)
(* invalid_expression error of an #elseif whose guard is invalid and       *)
(* nothing else; parsing continues and the If has at most one Else.        *)
C18_OneAfterElseError ==
    [][\A c \in Range(pending) :
          AfterElse(c) =>
              /\ NewErrors =
                     (IF InvalidGuard(c)
                      THEN <<ErrorEntry("invalid_expression", c.line, c.column)>>
                      ELSE <<>>) \o <<AfterElseEntry(c)>>
              /\ ParsingGoesOn(c)]_vars

\* #if, #else, an #elseif with an invalid guard, #else: the #elseif has
\* recorded two errors at its position, the second #else one.
C18_Witness ==
    /\ pc = "failed"
    /\ \E k \in DOMAIN errors :
          /\ k + 2 <= Len(errors)
          /\ errors[k].subtype = "invalid_expression"
          /\ errors[k + 1] = [errors[k] EXCEPT !.subtype = "elseif_after_else"]
          /\ errors[k + 2].subtype = "duplicate_else"
          /\ errors[k + 2].line > errors[k].line
    /\ Cardinality({i \in IfIds : blocks[i].else # 0}) = 1

----------------------------------------------------------------------------
(* C20: an #endif met while no If is open records one endif_without_if     *)
(* error at its line and column and changes nothing else: the If stack,    *)
(* the scope stack, the blocks and the top-level list stay as they were,   *)
(* and no dummy If is created.                                             *)

C20_Step ==
    (/\ pc = "parse"
     /\ pending # <<>>
     /\ pending' = Tail(pending)
     /\ TagOf(Head(pending)) = "#endif"
     /\ ifStack = <<>>) =>
        /\ NewErrors = <<ErrorEntry("endif_without_if",
                                    Head(pending).line, Head(pending).column)>>
        /\ SubSeq(errors', 1, Len(errors)) = errors
        /\ ifStack' = <<>>
        /\ scopeStack' = scopeStack
        /\ blocks' = blocks
        /\ toplevel' = toplevel
        /\ Dummies' = Dummies
        /\ pc' = "parse"

C20_EndifWithoutIf == [][C20_Step]_vars

\* #endif, then a complete If: the one error of the #endif, and the blocks
\* hold the If alone.
C20_Witness ==
    /\ pc = "failed"
    /\ errors = <<ErrorEntry("endif_without_if", 1, 0)>>
    /\ Len(blocks) = 1
    /\ toplevel = <<1>>
    /\ blocks[1].line = 3

----------------------------------------------------------------------------
(* C19: an #if or #elseif whose guard text is empty, is a syntax error, is *)
(* not an expression statement or holds more than one statement has, when  *)
(* parse has ended, exactly one invalid_expression error, at the line and  *)
(* column of the directive; a directive with one expression as its guard   *)
(* has none, and there is no invalid_expression error at another position. *)

\* The guard text of directive c without its blanks.
GuardAtoms(c) ==
    SelectSeq(MatchDirective(c.isBlock, c.text).rawExpression,
              LAMBDA a : a \notin RegexSpace)

\* The guard text is empty, or holds a text that is no expression, or more
\* than one expression.
BadGuardText(c) ==
    \/ GuardAtoms(c) = <<>>
    \/ Len(GuardAtoms(c)) > 1
    \/ GuardAtoms(c)[1] \in InvalidTexts

InvalidExpressionAt(line, column) ==
    {k \in DOMAIN errors : errors[k] = ErrorEntry("invalid_expression", line, column)}

C19_InvalidExpression ==
    ParseEnded =>
        /\ \A k \in DOMAIN DirectiveComments :
              LET c == DirectiveComments[k]
              IN TagOf(c) \in {"#if", "#elseif"} =>
                    Cardinality(InvalidExpressionAt(c.line, c.column)) =
                        IF BadGuardText(c) THEN 1 ELSE 0
        /\ \A k \in DOMAIN errors :
              errors[k].subtype = "invalid_expression" =>
                  \E j \in DOMAIN DirectiveComments :
                      /\ DirectiveComments[j].line = errors[k].line
                      /\ DirectiveComments[j].column = errors[k].column

\* An #if with two statements as its guard and an indented #elseif with a
\* statement that is no expression: one error each, at columns 0 and 1.
C19_Witness ==
    /\ pc = "failed"
    /\ errors = <<ErrorEntry("invalid_expression", 1, 0),
                  ErrorEntry("invalid_expression", 3, 1)>>
    /\ \E i, j \in DOMAIN DirectiveComments :
          /\ GuardAtoms(DirectiveComments[i]) = <<"A", NotAnExpr>>
          /\ GuardAtoms(DirectiveComments[j]) = <<"while">>

----------------------------------------------------------------------------
(* C21: block comments of several lines.                                   *)

\* The block comments of the text that parse has been given so far.
BlockCommentsSeen ==
    LET all == Scan(code).comments
    IN {all[k] : k \in {j \in DOMAIN all : all[j].isBlock /\ j <= Len(all) - Len(pending)}}

\* The directive events of comment c: the blocks that are not dummies and
\* the #endif markers at the position of c, as tags.
EventsOf(c) ==
    {"#" \o blocks[b].type : b \in {i \in BlockIds : blocks[i].start = c.start
                                                        /\ ~blocks[i].dummy}}
    \cup {"#endif" : i \in {j \in IfIds : blocks[j].endif.start = c.start}}

\* What parse has recorded for comment c: events, or an endif_without_if
\* error of an #endif that matched no If.
Recognised(c) ==
    \/ EventsOf(c) # {}
    \/ HasEntry(errors, "endif_without_if", c.line, c.column)

\* The offsets in text t at which a line begins.
LineStarts(t) == {p \in 0..Len(t) : p = 0 \/ t[p] \in LineTerminators}

\* The line of t from offset p gives a directive by itself: optional blanks,
\* at most one "*", optional blanks, a tag, and the end of the line or a
\* blank after the tag.
TagLine(t, p) == MatchBlockAt(Slice(t, p, LineEnd(t, p)), 0)

(* C21 as stated: a block comment is a directive only through its first    *)
(* line; a comment whose first line does not begin with a tag gives no     *)
(* directive event.                                                        *)
C21_FirstLineOnly ==
    lexOk =>
        \A c \in BlockCommentsSeen :
            ~TagLine(c.text, 0).matched => ~Recognised(c)

(* C21 amended: a block comment is a directive through the first of its    *)
(* lines that begins with a tag (after blanks and at most one "*"): it     *)
(* gives the one directive event of that line, with the guard text of that *)
(* line, and later lines are ignored; a comment without such a line gives  *)
(* no directive event.                                                     *)
C21_FirstTagLine ==
    lexOk =>
        \A c \in BlockCommentsSeen :
            LET tagged == {p \in LineStarts(c.text) : TagLine(c.text, p).matched}
                first  == CHOOSE p \in tagged : \A q \in tagged : p <= q
                m      == TagLine(c.text, first)
            IN IF tagged = {} THEN ~Recognised(c)
               ELSE /\ Recognised(c)
                    /\ EventsOf(c) \subseteq {m.tag}
                    /\ \A b \in BlockIds :
                          (blocks[b].start = c.start /\ blocks[b].type \in {"if", "elseif"}
                              /\ ~blocks[b].dummy) =>
                             blocks[b].expression =
                                 (IF m.rawExpression = <<>> THEN ""
                                  ELSE parseExpression(m.rawExpression).code)

\* A comment whose second line holds #if A and whose third line holds
\* another tag: the call has run with the one If of the second line.
C21_Witness ==
    /\ pc = "done"
    /\ \E c \in BlockCommentsSeen :
          /\ ~TagLine(c.text, 0).matched
          /\ \E p, q \in LineStarts(c.text) :
                /\ 0 < p /\ p < q
                /\ TagLine(c.text, p).matched /\ TagLine(c.text, p).tag = "#if"
                /\ TagLine(c.text, q).matched /\ TagLine(c.text, q).tag = "#endif"
          /\ EventsOf(c) = {"#if"}
          /\ Len(blocks) = 1

----------------------------------------------------------------------------
(* C22: the context the command line program has built holds the entries   *)
(* of the env file and the -v variables; a key given by -v has the value   *)
(* of its last -v, whatever the env file says: true for a -v without "=",  *)
(* the string after the first "=" otherwise, the key being what precedes   *)
(* the first "=".                                                          *)

HasEquals(v) == \E i \in DOMAIN v : v[i] = "="

FirstEquals(v) == CHOOSE i \in DOMAIN v : v[i] = "=" /\ \A j \in 1..(i - 1) : v[j] # "="

ArgKey(v) == IF HasEquals(v) THEN SubSeq(v, 1, FirstEquals(v) - 1) ELSE v

ArgValue(v) ==
    IF HasEquals(v) THEN JsString(SubSeq(v, FirstEquals(v) + 1, Len(v))) ELSE JsTrue

C22_EnvThenVars ==
    pc = "ready" =>
        LET varKeys == {ArgKey(cli.var[i]) : i \in DOMAIN cli.var}
            envKeys == IF cli.env.defined THEN DOMAIN cli.env.parsed ELSE {}
        IN /\ DOMAIN context = varKeys \cup envKeys
           /\ \A k \in varKeys :
                 LET last == CHOOSE i \in DOMAIN cli.var :
                                 /\ ArgKey(cli.var[i]) = k
                                 /\ \A j \in DOMAIN cli.var :
                                        ArgKey(cli.var[j]) = k => j <= i
                 IN context[k] = ArgValue(cli.var[last])
           /\ \A k \in envKeys \ varKeys : context[k] = JsString(cli.env.parsed[k])

\* An env file with A and B, -v A=1=1 and -v B: A is the string "1=1" and B
\* is true.
C22_Witness ==
    /\ pc = "ready"
    /\ cli.env.defined
    /\ DOMAIN cli.env.parsed = {<<"A">>, <<"B">>}
    /\ cli.var = <<<<"A", "=", "1", "=", "1">>, <<"B">>>>
    /\ context[<<"A">>] = JsString(<<"1", "=", "1">>)
    /\ context[<<"B">>] = JsTrue

----------------------------------------------------------------------------
(* C23: the cuts of a reached If.  The range that removes the directives   *)
(* up to the taken branch, and the range that removes the directives after *)
(* it, are as follows, by the taken branch:                                *)
(*   0:                 [If.start, If.end) and                             *)
(*                      [first elseif, else the else, else the endif,      *)
(*                       Endif.end)                                        *)
(*   k >= 1:            [If.start, ElseIf_k.end) and                       *)
(*                      [next elseif, else the else, else the endif,       *)
(*                       Endif.end)                                        *)
(*   -1 with an Else:   [If.start, Else.end) and [Endif.start, Endif.end)  *)
(*   -1 without Else:   [If.start, Endif.end) alone.                       *)
(* The cut list removes exactly the offsets of these ranges of the reached *)
(* Ifs; each range lies in one range of the list, and the ranges of the    *)
(* Ifs in the taken branch lie between the two ranges of their If.         *)

Taken(i) == blocks[i].takenBranch[1]

\* The directive that follows the taken branch t >= 0 of If i, as a start
\* offset: the next elseif, else the else, else the endif.
NextDirectiveStart(i, t) ==
    LET ds == Directives(i)
    IN IF t + 1 < Len(ds) THEN blocks[ds[t + 2]].start ELSE blocks[i].endif.start

LeadRange(i) ==
    LET t == Taken(i)
    IN [start |-> blocks[i].start,
        end   |-> IF t = 0 THEN blocks[i].end
                  ELSE IF t >= 1 THEN blocks[blocks[i].elseIfs[t]].end
                  ELSE IF blocks[i].else # 0 THEN blocks[blocks[i].else].end
                  ELSE blocks[i].endif.end]

TrailRange(i) ==
    LET t == Taken(i)
    IN [start |-> IF t >= 0 THEN NextDirectiveStart(i, t)
                  ELSE IF blocks[i].else # 0 THEN blocks[i].endif.start
                  ELSE blocks[i].start,
        end   |-> blocks[i].endif.end]

OffsetsOf(r) == r.start .. (r.end - 1)

\* Index in the cut list of the range that holds range r, 0 if none does.
CutIndex(r) ==
    IF \E k \in DOMAIN CutList : CutList[k].start <= r.start /\ r.end <= CutList[k].end
    THEN CHOOSE k \in DOMAIN CutList :
             CutList[k].start <= r.start /\ r.end <= CutList[k].end
    ELSE 0

\* The Ifs in the taken branch of If i.
TakenChildren(i) ==
    LET t == BranchIndex(i, Taken(i))
    IN IF t = 0 THEN {} ELSE Range(blocks[Directives(i)[t]].children)

C23_CutsOfIf ==
    pc = "done" =>
        /\ UNION {OffsetsOf(CutList[k]) : k \in DOMAIN CutList} =
               UNION {OffsetsOf(LeadRange(i)) \cup OffsetsOf(TrailRange(i)) : i \in Reached}
        /\ \A i \in Reached :
              /\ CutIndex(LeadRange(i)) > 0
              /\ CutIndex(TrailRange(i)) > 0
              /\ \A j \in TakenChildren(i) :
                    /\ j \in Reached
                    /\ CutIndex(LeadRange(i)) <= CutIndex(LeadRange(j))
                    /\ LeadRange(i).end <= LeadRange(j).start
                    /\ CutIndex(TrailRange(j)) <= CutIndex(TrailRange(i))
                    /\ TrailRange(j).end <= TrailRange(i).start

\* An If whose first #elseif is taken, with an If in that branch and a
\* second #elseif after it, where the second range begins.
C23_Witness ==
    /\ pc = "done"
    /\ \E i \in Reached :
          /\ Taken(i) = 1
          /\ Len(blocks[i].elseIfs) = 2
          /\ TakenChildren(i) # {}
          /\ TrailRange(i).start = blocks[blocks[i].elseIfs[2]].start
          /\ CutIndex(LeadRange(i)) < CutIndex(TrailRange(i))

----------------------------------------------------------------------------
(* C24: for a block tree that was parsed and evaluated with success the    *)
(* cut list is ordered and coalesced: every range has start <= end, and    *)
(* each range begins after the end of the range before it, so that no two  *)
(* consecutive ranges overlap or touch.                                    *)

C24_OrderedCoalesced ==
    Succeeded =>
        /\ \A k \in DOMAIN CutList : CutList[k].start <= CutList[k].end
        /\ \A k \in 1..(Len(CutList) - 1) : CutList[k].end < CutList[k + 1].start

\* The #if comment of a taken branch and the #endif comment touch: their two
\* ranges are one range of the list, after the sentinel.
C24_Witness ==
    /\ pc = "done"
    /\ \E i \in Reached :
          /\ Taken(i) = 0
          /\ blocks[i].end = blocks[i].endif.start
          /\ blocks[i].start > 0
          /\ CutList = <<[start |-> 0, end |-> 0],
                         [start |-> blocks[i].start, end |-> blocks[i].endif.end]>>

----------------------------------------------------------------------------
(* C25: before each cut the whole run of horizontal whitespace that ends   *)
(* at the cut's start is removed and nothing before that run is: the       *)
(* character before the run, a line terminator or any other character, is  *)
(* in the output unless a range of the cut list or the removal of the line *)
(* terminator after a range takes it.                                      *)

\* WhiteSpace of ECMAScript: TAB, VT, FF, ZWNBSP and the space separators.
WhiteSpace ==
    {"TAB", "VT", "FF", "BOM"} \cup
    {" ", "NBSP", "U1680", "U2000", "U2001", "U2002", "U2003", "U2004", "U2005",
     "U2006", "U2007", "U2008", "U2009", "U200A", "U202F", "U205F", "U3000"}

\* The offsets of the whitespace run that ends right before offset q.
RunBefore(q) ==
    {r \in 0..(q - 1) : \A k \in r..(q - 1) : code[k + 1] \in WhiteSpace}

\* Offset p belongs to the line terminator sequence right after the end of
\* a range of the cut list.
TerminatorAfterCut(p) ==
    \E k \in DOMAIN CutList :
        CutList[k].end <= p /\ p < CutList[k].end + TermLen(CutList[k].end)

C25_TrimLeft ==
    pc = "done" =>
        \A c \in RealCuts :
            LET run == RunBefore(c.start)
                e   == c.start - Cardinality(run)
            IN /\ \A r \in run : r \notin Kept
               /\ (e > 0 /\ ~InCut(e - 1) /\ ~TerminatorAfterCut(e - 1)) =>
                      e - 1 \in Kept

\* A run of two whitespace characters before the #if, the first of them a
\* no-break space or rarer, at the beginning of the second line: the run is
\* gone and the line terminator before it is in the output.
C25_Witness ==
    /\ pc = "done"
    /\ \E c \in RealCuts :
          /\ Cardinality(RunBefore(c.start)) = 2
          /\ code[c.start - 1] \notin {" ", "TAB"}
          /\ c.start - 2 > 0
          /\ code[c.start - 2] = "LF"
          /\ c.start - 3 \in Kept
          /\ c.start - 2 \notin Kept

----------------------------------------------------------------------------
(* C26 as stated: with a real cut and none at offset 0, every character    *)
(* before the first real cut other than the whitespace run right before    *)
(* that cut is in the output, a line terminator at offset 0 included.      *)

\* The cut list keeps its zero-length first range and has a range after it.
SentinelApart == Len(CutList) >= 2 /\ CutList[1].end = 0

FirstCut == CutList[2]

C26_SentinelRemovesNothing ==
    (Succeeded /\ SentinelApart) =>
        \A p \in 0..(FirstCut.start - 1) :
            p \notin RunBefore(FirstCut.start) => p \in Kept

\* Length of the line terminator sequence that the first range of the cut
\* list takes at offset 0: LF, LS, PS or CR LF; none for a CR by itself.
SentinelTerminator ==
    IF Len(code) >= 1 /\ code[1] \in {"LF", "LS", "PS"} THEN 1
    ELSE IF Len(code) >= 2 /\ code[1] = "CR" /\ code[2] = "LF" THEN 2
    ELSE 0

(* C26: the zero-length first range is processed like every range and      *)
(* offset 0 is the beginning of a line: with a real cut and none at offset *)
(* 0, the characters before the first real cut that are missing from the   *)
(* output are exactly the whitespace run right before that cut and one     *)
(* line terminator sequence (LF, LS, PS or CR LF) at offset 0.             *)
C26_SentinelLine ==
    (Succeeded /\ SentinelApart) =>
        \A p \in 0..(FirstCut.start - 1) :
            p \in Kept <=>
                (p \notin RunBefore(FirstCut.start) /\ p >= SentinelTerminator)

\* The source begins with an empty line and a line of code before the
\* #if: the first LF is gone, the code and the LF after it are there.
C26_Witness ==
    /\ Succeeded /\ SentinelApart
    /\ FirstCut.start >= 3
    /\ code[1] = "LF" /\ code[2] = "x" /\ code[3] = "LF"
    /\ 0 \notin Kept /\ 1 \in Kept /\ 2 \in Kept

----------------------------------------------------------------------------
(* C27: at every moment of parse, each If is a child of the branch that    *)
(* was the innermost open one where the #if stands (the enclosing If, or   *)
(* the last #elseif or #else met for it before the #if), and of no block   *)
(* when no If was open there; the children of a block are in source order; *)
(* the top-level list holds, in source order, exactly the closed Ifs that  *)
(* stand where no If is open; and the scope on top of the scope stack is   *)
(* the innermost branch open after the directives met so far.              *)

\* If j is open at offset p: met before p and not closed before p.
OpenAt(j, p) ==
    /\ blocks[j].start <= p
    /\ blocks[j].endif = NoEndif \/ blocks[j].endif.start > p

\* The innermost If open at offset p among the Ifs met before If i (all Ifs
\* for i = 0); 0 when there is none.
InnermostIf(p, i) ==
    LET open == {j \in IfIds \ {i} : OpenAt(j, p)}
    IN IF open = {} THEN 0
       ELSE CHOOSE j \in open : \A k \in open : blocks[k].start <= blocks[j].start

\* The #elseif and #else blocks met for If j before offset p, a replaced
\* Else included.
BranchesBefore(j, p) ==
    {b \in BlockIds : /\ blocks[b].type # "if"
                      /\ blocks[b].start < p
                      /\ InnermostIf(blocks[b].start, 0) = j}

\* The innermost branch open at offset p, If i left aside.
OpenBranch(p, i) ==
    LET j  == InnermostIf(p, i)
        bs == IF j = 0 THEN {} ELSE BranchesBefore(j, p)
    IN IF bs = {} THEN j
       ELSE CHOOSE b \in bs : \A k \in bs : blocks[k].start <= blocks[b].start

Ascending(ids) ==
    \A k \in 1..(Len(ids) - 1) : blocks[ids[k]].start < blocks[ids[k + 1]].start

C27_TreeShape ==
    /\ \A i \in IfIds : Holder(i) = OpenBranch(blocks[i].start, i)
    /\ \A i \in IfIds :
          Cardinality({h \in BlockIds : i \in Range(blocks[h].children)}) <= 1
    /\ \A h \in BlockIds : Ascending(blocks[h].children)
    /\ Ascending(toplevel)
    /\ Range(toplevel) =
          {i \in IfIds : /\ blocks[i].endif # NoEndif
                         /\ OpenBranch(blocks[i].start, i) = 0}
    /\ Top(scopeStack) = OpenBranch(Len(code) + 1, 0)

\* An If in the body of the #else of an If, closed there, and the scope is
\* the Else again.
C27_Witness ==
    \E i, j \in IfIds :
        /\ ~blocks[j].dummy
        /\ blocks[j].else # 0
        /\ blocks[blocks[j].else].children = <<i>>
        /\ blocks[i].endif # NoEndif
        /\ scopeStack = <<blocks[j].else>>

----------------------------------------------------------------------------
(* C28: after a successful evaluation the Ifs with a takenBranch are       *)
(* exactly the Ifs that makeCuts reads: the top-level Ifs and the children *)
(* of the branch that the takenBranch of such an If names; every other If  *)
(* keeps an undefined takenBranch.  And the result list that the program   *)
(* returns has, at each level, the length of the block list it is set on.  *)

\* The children of the branch of If i that makeCuts goes into, as its tests
\* takenBranch === 0 and takenBranch >= 1 give them (both fail on undefined).
ReadChildren(i) ==
    LET tb == blocks[i].takenBranch
    IN IF tb = <<0>> THEN blocks[i].children
       ELSE IF tb # <<>> /\ tb[1] >= 1 THEN blocks[blocks[i].elseIfs[tb[1]]].children
       ELSE IF blocks[i].else # 0 THEN blocks[blocks[i].else].children
       ELSE <<>>

\* The Ifs whose takenBranch makeCuts(ifBlocks, cuts) reads.
RECURSIVE Visited(_)
Visited(ifBlocks) ==
    Range(ifBlocks) \cup UNION {Visited(ReadChildren(i)) : i \in Range(ifBlocks)}

\* The children of the branch of If i that a result entry stands for.
BranchChildren(i, branch) ==
    IF branch = 0 THEN blocks[i].children
    ELSE IF branch >= 1 THEN blocks[blocks[i].elseIfs[branch]].children
    ELSE IF blocks[i].else # 0 THEN blocks[blocks[i].else].children
    ELSE <<>>

RECURSIVE SameShape(_, _)
SameShape(result, ifBlocks) ==
    /\ Len(result) = Len(ifBlocks)
    /\ \A k \in DOMAIN result :
          result[k].hasChildren =>
              SameShape(result[k].children, BranchChildren(ifBlocks[k], result[k].branch))

C28_Step ==
    (pc = "eval" /\ pc' = "apply") =>
        SameShape(RunProgram(blocks, toplevel, context, mode' = "condCompSync").res,
                  toplevel)

C28_TakenBranchOnReached ==
    /\ [](Succeeded => {i \in IfIds : blocks[i].takenBranch # <<>>} = Visited(toplevel))
    /\ [][C28_Step]_vars

\* The #else of a top-level If is taken: the If has a takenBranch, the If
\* in the body of its #if has none.
C28_Witness ==
    /\ pc = "done"
    /\ \E i, j \in IfIds :
          /\ i \in Range(toplevel)
          /\ blocks[i].takenBranch = <<-1>>
          /\ blocks[i].else # 0
          /\ j \in Range(blocks[i].children)
          /\ blocks[j].takenBranch = <<>>

----------------------------------------------------------------------------
(* C29: in the guards run by one call no guard occurs twice; when the      *)
(* guard of an #elseif is run, the #if guard and the guards of the earlier *)
(* #elseifs of its If were run before it and were falsy; and after a guard *)
(* that was truthy or threw no guard of the same If is run.                *)

\* The guards of the chain of If i that stand before guard g of the chain.
EarlierGuards(i, g) ==
    LET ds == <<i>> \o blocks[i].elseIfs
    IN {ds[n] : n \in {n \in DOMAIN ds : \E m \in DOMAIN ds : n < m /\ ds[m] = g}}

C29_ChainOrder ==
    /\ \A k, l \in DOMAIN evalLog : evalLog[k].block = evalLog[l].block => k = l
    /\ \A k \in DOMAIN evalLog :
          LET g == evalLog[k].block
          IN \A e \in EarlierGuards(IfOf(g), g) :
                \E l \in 1..(k - 1) :
                    evalLog[l].block = e /\ evalLog[l].outcome = "falsy"
    /\ \A k, l \in DOMAIN evalLog :
          (k < l /\ IfOf(evalLog[k].block) = IfOf(evalLog[l].block)) =>
              evalLog[k].outcome = "falsy"

\* An If with two #elseifs: the #if guard was falsy, the first #elseif
\* guard truthy, and the second #elseif guard was not run.
C29_Witness ==
    /\ pc = "done"
    /\ \E i \in IfIds :
          /\ Len(blocks[i].elseIfs) = 2
          /\ Outcome(i) = "falsy"
          /\ Outcome(blocks[i].elseIfs[1]) = "truthy"
          /\ blocks[i].elseIfs[2] \notin Executed

----------------------------------------------------------------------------
(* C30: an #if whose guard is missing or invalid is an open block on both  *)
(* stacks until its #endif is met, and an #elseif with an invalid guard is *)
(* in the elseIfs of the If open where it stands.  The invalid guard gives *)
(* one invalid_expression error and no other: at the #if there is no other *)
(* error but missing_endif when the If is never closed, and the #elseif,   *)
(* #else and #endif of an If that is no dummy have no *_without_if error.  *)

\* The blocks of the #if and #elseif directives whose guard text is bad.
BadGuardBlocks ==
    {b \in BlockIds :
        /\ ~blocks[b].dummy
        /\ \E k \in DOMAIN DirectiveComments :
              LET c == DirectiveComments[k]
              IN /\ c.start = blocks[b].start
                 /\ TagOf(c) \in {"#if", "#elseif"}
                 /\ BadGuardText(c)}

ErrorsAt(line, column) ==
    {k \in DOMAIN errors : errors[k].line = line /\ errors[k].column = column}

SubtypesAt(line, column) == {errors[k].subtype : k \in ErrorsAt(line, column)}

\* The If is on both stacks, at the same depth.
OnBothStacks(i) ==
    \E d \in DOMAIN ifStack :
        /\ ifStack[d] = i
        /\ d \in DOMAIN scopeStack
        /\ scopeStack[d] \in {i} \cup BranchesBefore(i, Len(code) + 1)

C30_InvalidGuardOpens ==
    /\ \A i \in BadGuardBlocks \cap IfIds :
          /\ Cardinality(ErrorsAt(blocks[i].line, blocks[i].column)) =
                 IF blocks[i].endif = NoEndif /\ pc # "parse" THEN 2 ELSE 1
          /\ SubtypesAt(blocks[i].line, blocks[i].column) \subseteq
                 {"invalid_expression"} \cup
                 (IF blocks[i].endif = NoEndif THEN {"missing_endif"} ELSE {})
          /\ (pc = "parse" /\ blocks[i].endif = NoEndif) => OnBothStacks(i)
          /\ \A b \in BranchesBefore(i, Len(code) + 1) :
                SubtypesAt(blocks[b].line, blocks[b].column) \cap WithoutIfSubtypes = {}
          /\ blocks[i].endif # NoEndif =>
                SubtypesAt(blocks[i].endif.line, blocks[i].endif.column) = {}
    /\ \A e \in BadGuardBlocks \ IfIds :
          LET i == InnermostIf(blocks[e].start, 0)
          IN /\ i # 0
             /\ e \in Range(blocks[i].elseIfs)
             /\ Cardinality(InvalidExpressionAt(blocks[e].line, blocks[e].column)) = 1
             /\ ~blocks[i].dummy =>
                   /\ SubtypesAt(blocks[e].line, blocks[e].column) \cap WithoutIfSubtypes = {}
                   /\ blocks[i].endif # NoEndif =>
                         SubtypesAt(blocks[i].endif.line, blocks[i].endif.column) = {}

\* "#if" without a guard, an #elseif whose guard is no expression, #else
\* and #endif: the two invalid_expression errors and no other, and the If
\* is closed at top level with its ElseIf and its Else.
C30_Witness ==
    /\ pc = "failed"
    /\ Len(errors) = 2
    /\ \A k \in DOMAIN errors : errors[k].subtype = "invalid_expression"
    /\ \E i \in BadGuardBlocks \cap IfIds :
          /\ toplevel = <<i>>
          /\ Len(blocks[i].elseIfs) = 1
          /\ blocks[i].elseIfs[1] \in BadGuardBlocks
          /\ blocks[i].else # 0

----------------------------------------------------------------------------
(* C31: when parse has returned without error no If is a dummy; every If   *)
(* has an #endif with offsets inside the source that starts at or after    *)
(* the end of the #if directive and of every #elseif and #else of the If;  *)
(* the #elseifs are in source order and the #else starts after each of     *)
(* them; and every child If, from its #if to the end of its #endif, lies   *)
(* in the body of the branch that holds it.                                *)

ParseReturned == ParseEnded /\ errors = <<>>

\* Directive d lies before offset p.
EndsBefore(d, p) ==
    /\ 0 <= blocks[d].start
    /\ blocks[d].start < blocks[d].end
    /\ blocks[d].end <= p

C31_WellFormedTree ==
    ParseReturned =>
        /\ Dummies = {}
        /\ \A b \in BlockIds \ IfIds :
              \E i \in IfIds : b \in Range(Directives(i))
        /\ \A i \in IfIds :
              LET ds == Directives(i)
                  e  == blocks[i].endif
              IN /\ e.start < e.end /\ e.end <= Len(code)
                 /\ e.line >= 1 /\ e.column >= 0
                 /\ \A t \in DOMAIN ds : EndsBefore(ds[t], e.start)
                 /\ \A t \in 1..(Len(ds) - 1) : EndsBefore(ds[t], blocks[ds[t + 1]].start)
                 /\ \A t \in DOMAIN ds :
                       \A j \in Range(blocks[ds[t]].children) :
                           /\ j \in IfIds
                           /\ Span(j) # {}
                           /\ Span(j) \subseteq Body(i, IF blocks[ds[t]].type = "else"
                                                         THEN -1 ELSE t - 1)

\* Parse has returned an If with an If in its body.
C31_Witness ==
    /\ pc = "eval"
    /\ errors = <<>>
    /\ \E i, j \in IfIds :
          /\ toplevel = <<i>>
          /\ blocks[i].children = <<j>>
          /\ blocks[j].endif.end <= blocks[i].endif.start

----------------------------------------------------------------------------
(* C32: condComp and condCompSync on the same source and equal contexts.   *)

\* The blocks as parse returned them.
ParsedBlocks == [b \in DOMAIN blocks |-> [blocks[b] EXCEPT !.takenBranch = <<>>]]

\* What a call through the entry point gives for the source and the context
\* of the current call, once the promise reactions it queued have run: the
\* failure or the text returned, and the context.
ModeOutcome(sync) ==
    LET r == RunProgram(ParsedBlocks, toplevel, context0, sync)
        f == IF sync /\ HasAwait(blocks)
             THEN makeEvaluationError(
                      [cause |-> "Error", origin |-> 0, line |-> 0, column |-> 0])
             ELSE IF r.thrown THEN makeEvaluationError(r.err)
             ELSE NoFailure
    IN [kind   |-> f.kind,
        line   |-> f.line,
        column |-> f.column,
        text   |-> IF f.kind # "none" THEN <<>>
                   ELSE apply(code, setEvaluationResults(ParsedBlocks, toplevel, r.res, 1),
                              toplevel),
        ctx    |-> IF sync /\ HasAwait(blocks) THEN context0
                   ELSE IF r.jobs THEN [r.ctx EXCEPT !.A = TRUE] ELSE r.ctx]

\* What the current call gave.
CallOutcome ==
    [kind |-> failure.kind, line |-> failure.line, column |-> failure.column,
     text |-> output, ctx |-> context]

\* The call has returned or thrown after an error-free parse, and no promise
\* reaction is waiting.
CallSettled ==
    /\ ParseReturned
    /\ pc \in {"done", "failed"}
    /\ mode # ""
    /\ ~microtasks

(* C32 as stated: when no guard of the source uses await, the call gave    *)
(* what a call through the other entry point gives from an equal context:  *)
(* the same text and context, or a failure of the same kind, line, column. *)
C32_SameOutcome ==
    (CallSettled /\ ~AwaitGuarded) =>
        CallOutcome = ModeOutcome(mode = "condComp")

\* A guard of the source queues a promise reaction.
Deferring == \E i \in BlockIds : blocks[i].expression = "P!"

(* C32: when no guard of the source uses await and none queues a promise   *)
(* reaction that writes to the context, the call gave what a call through  *)
(* the other entry point gives from an equal context: the same text and    *)
(* context, or a failure of the same kind, line and column.                *)
C32_SameOutcomeNoDeferral ==
    (CallSettled /\ ~AwaitGuarded /\ ~Deferring) =>
        CallOutcome = ModeOutcome(mode = "condComp")

\* condCompSync, from a context in which A is false, on a source whose
\* first guard assigns A and whose second guard reads it: both are truthy.
C32_Witness ==
    /\ CallSettled /\ ~AwaitGuarded /\ ~Deferring
    /\ pc = "done"
    /\ mode = "condCompSync"
    /\ ~context0.A
    /\ \E i, j \in IfIds :
          /\ blocks[i].expression = "A=1" /\ Outcome(i) = "truthy"
          /\ blocks[j].expression = "A" /\ Outcome(j) = "truthy"

----------------------------------------------------------------------------
(* C33: the text apply returns is the source without some of its           *)
(* characters, the others in their order; every missing character lies in  *)
(* a range of the cut list, in the whitespace run right before a range or  *)
(* in the line terminator sequence right after a range; and each piece     *)
(* that is copied begins at or after the end of the piece before it.       *)

\* The pieces code.slice(pos, end) of the loop of apply and the last piece
\* code.slice(pos), as pairs of offsets.
RECURSIVE Pieces(_, _, _)
Pieces(slices, i, pos) ==
    IF i > Len(slices) THEN <<[from |-> pos, to |-> Len(code)]>>
    ELSE LET end == slurpAllWhitespaceLeft(code, slices[i].start)
             nxt == IF isEmptyLine(code, end)
                    THEN slurpSingleNewLineRight(code, slices[i].end)
                    ELSE slices[i].end
         IN <<[from |-> pos, to |-> end]>> \o Pieces(slices, i + 1, nxt)

InRange(p) == \E k \in DOMAIN CutList : CutList[k].start <= p /\ p < CutList[k].end

C33_OnlyDeletes ==
    Succeeded =>
        LET ks == applyOffsets(code, blocks, toplevel)
            ps == Pieces(CutList, 1, 0)
        IN /\ \A k \in DOMAIN ks : 0 <= ks[k] /\ ks[k] < Len(code)
           /\ \A k \in 1..(Len(ks) - 1) : ks[k] < ks[k + 1]
           /\ pc = "done" => output = [k \in DOMAIN ks |-> code[ks[k] + 1]]
           /\ \A p \in 0..(Len(code) - 1) :
                 p \notin Range(ks) =>
                     \/ InRange(p)
                     \/ \E k \in DOMAIN CutList : p \in RunBefore(CutList[k].start)
                     \/ TerminatorAfterCut(p)
           /\ Len(CutList) > 1 =>
                 /\ \A k \in DOMAIN ps : ps[k].from <= ps[k].to
                 /\ \A k \in 1..(Len(ps) - 1) : ps[k].to <= ps[k + 1].from

\* A text is returned that lacks a character of a range, a blank before a
\* range and a line terminator after a range, and that holds code.
C33_Witness ==
    /\ pc = "done"
    /\ output # <<>>
    /\ \E c \in RealCuts :
          /\ c.start - 1 \in RunBefore(c.start)
          /\ c.start - 1 \notin Kept
          /\ TermLen(c.end) = 2
          /\ c.end \notin Kept /\ c.end + 1 \notin Kept
    /\ \E p \in Kept : code[p + 1] = "x"

----------------------------------------------------------------------------
(* C34: in every state of parse the scope stack and the If stack have the  *)
(* same length, and the entry of the scope stack at each depth is the If   *)
(* of the If stack at that depth or an ElseIf or the Else of that If; so   *)
(* the scope stack is empty exactly when the If stack is, also right after *)
(* an #endif has popped both.                                              *)

C34_Step ==
    (/\ pc = "parse"
     /\ pending # <<>>
     /\ pending' = Tail(pending)
     /\ TagOf(Head(pending)) = "#endif"
     /\ ifStack # <<>>) =>
        /\ Len(ifStack') = Len(ifStack) - 1
        /\ Len(scopeStack') = Len(scopeStack) - 1
        /\ (toplevel' # toplevel) <=> (ifStack' = <<>>)

C34_StacksAligned ==
    /\ [](/\ Len(scopeStack) = Len(ifStack)
          /\ \A d \in DOMAIN ifStack :
                /\ ifStack[d] \in IfIds
                /\ scopeStack[d] \in Range(Directives(ifStack[d]))
          /\ (scopeStack = <<>>) <=> (ifStack = <<>>))
    /\ [][C34_Step]_vars

\* Two Ifs are open: the scope of the outer one is its Else, the scope of
\* the inner one an ElseIf.
C34_Witness ==
    /\ Len(ifStack) = 2
    /\ Len(scopeStack) = 2
    /\ scopeStack[1] = blocks[ifStack[1]].else
    /\ scopeStack[2] \in Range(blocks[ifStack[2]].elseIfs)

============================================================================
